---- MODULE Spec2Model ----
(***************************************************************************)
(* Verification model of the offline database toolkit (cargio-db-dev).     *)
(*                                                                         *)
(* Part 1: strip_signatures, the finality algorithm of the signature       *)
(*         purger (purge_signatures/signatures.rs).                        *)
(* Part 2: the purge run: initialize_indices, EraWeights and               *)
(*         purge_signatures_for_blocks (purge_signatures/purge.rs).        *)
(* Part 3: slice extraction (extract_slice/storage.rs) and the execution   *)
(*         results summary (execution_results_summary).                    *)
(* Part 4: the progress tracker (common/progress.rs) and the output file   *)
(*         of the summary (execution_results_summary/read_db.rs).          *)
(*                                                                         *)
(* PublicKeys are the integers 0..NKeys-1, ordered as PublicKey's Ord.     *)
(* U512 weights are unbounded naturals: the code's U512 arithmetic panics  *)
(* on overflow instead of wrapping, so no wrapped value is ever observed.  *)
(***************************************************************************)
EXTENDS Integers, Sequences, FiniteSets, TLC

VARIABLES
    \* ---- strip_signatures (Part 1)
    weights,            \* the `weights` argument: BTreeMap<PublicKey, U512>
    signatures,         \* the `signatures` argument: BlockSignatures (mutated)
    signatures0,        \* history: `signatures` as passed in
    strip,              \* locals of strip_signatures, its position, and
                        \* the number of pop_first calls so far
    \* ---- purge run (Part 2)
    block_header,       \* sub-database block_header: key -> BlockHeader
    block_metadata,     \* sub-database block_metadata (committed contents)
    weak_finality_block_list,
    no_finality_block_list,
    indices,            \* Indices built by initialize_indices
    run,                \* position and locals of purge_signatures
    \* ---- slice extraction and summary (Part 3)
    source,             \* the source store: sub-database name -> key -> value
    destination,        \* the destination path and its committed store
    slice,              \* position and locals of the slice extraction
    stats,              \* position and locals of the summarizer scan
    \* ---- progress tracker and summary output (Part 4)
    progress_tracker,   \* a ProgressTracker and the calls its sink received
    out_file            \* the file at the output path, and the arguments
                        \* `overwrite` and the file as it was at the call

vars == <<weights, signatures, signatures0, strip,
          block_header, block_metadata, weak_finality_block_list,
          no_finality_block_list, indices, run,
          source, destination, slice, stats,
          progress_tracker, out_file>>

stripVars == <<weights, signatures, signatures0, strip>>
purgeVars == <<block_header, block_metadata, weak_finality_block_list,
               no_finality_block_list, indices, run>>
storeVars == <<source, destination, slice, stats>>
reportVars == <<progress_tracker, out_file>>

(***************************************************************************)
(* Bounds                                                                  *)
(***************************************************************************)
NKeys == 4
MaxWeight == 3
MaxCalls == 3

Keys == 0 .. (NKeys - 1)

\* Option<T>
None == [some |-> FALSE]
Some(v) == [some |-> TRUE, v |-> v]

\* Result<T, Error>; an Error is a tag and the hash, height or era it names.
Ok(v) == [ok |-> TRUE, value |-> v]
Err(e) == [ok |-> FALSE, error |-> e]
NoError == <<>>

\* Indices::default()
EmptyIndices == [heights |-> <<>>, switch_blocks |-> <<>>,
                 switch_blocks_before_upgrade |-> {}]

\* Signature of signer k over block b: a value that identifies both.
SignatureOf(b, k) == <<"sig", b, k>>

(***************************************************************************)
(* Generic helpers over finite maps and ordered sets                       *)
(***************************************************************************)
Min(S) == CHOOSE x \in S : \A y \in S : x <= y
Max(S) == CHOOSE x \in S : \A y \in S : x >= y

\* The elements of a finite set of integers in ascending order (the
\* iteration order of a BTreeSet / of a BTreeMap's keys).
RECURSIVE Ascending(_)
Ascending(S) == IF S = {} THEN <<>> ELSE <<Min(S)>> \o Ascending(S \ {Min(S)})

Restrict(f, S) == [x \in (DOMAIN f) \cap S |-> f[x]]

\* Sum of the weights of the keys of S under the map w.
RECURSIVE WeightOf(_, _)
WeightOf(S, w) ==
    IF S = {} THEN 0
    ELSE LET k == CHOOSE x \in S : TRUE
         IN  (IF k \in DOMAIN w THEN w[k] ELSE 0) + WeightOf(S \ {k}, w)

(***************************************************************************)
(* Part 1: strip_signatures                                                *)
(***************************************************************************)
\* Weak finality with the threshold itself included.
is_weak_finality_inclusive(weight, total) == weight * 3 >= total

is_weak_finality(weight, total) == weight * 3 > total

is_strict_finality_swapped(weight, total) == weight * 2 > total * 3

is_strict_finality(weight, total) == weight * 3 > total * 2

\* total_weight: fold of the weights map.
total_weight(w) == WeightOf(DOMAIN w, w)

\* inverse_map flattened: the validators in ascending weight order, equal
\* weights in PublicKey order (the push order of the weights iteration).
RECURSIVE inverse_walk(_, _)
inverse_walk(w, S) ==
    IF S = {} THEN <<>>
    ELSE LET k == CHOOSE x \in S :
                      \A y \in S : w[x] < w[y] \/ (w[x] = w[y] /\ x <= y)
         IN  <<k>> \o inverse_walk(w, S \ {k})

\* The validators in PublicKey order, whatever their weights.
inverse_order_by_key(w) == Ascending(DOMAIN w)

inverse_order(w) == inverse_walk(w, DOMAIN w)

\* walk_step without the break on weak finality.
walk_step_no_break(acc, key, sigs, w) ==
    IF key \in DOMAIN sigs.proofs
    THEN [accumulated_sigs   |-> acc.accumulated_sigs \cup {key},
          accumulated_weight |-> acc.accumulated_weight + w[key],
          brk                |-> FALSE]
    ELSE [accumulated_sigs   |-> acc.accumulated_sigs,
          accumulated_weight |-> acc.accumulated_weight,
          brk                |-> FALSE]

\* One iteration of the accumulation loop on validator `key`: the locals
\* after it, `brk` telling whether the loop breaks.
walk_step(acc, key, sigs, w) ==
    IF key \in DOMAIN sigs.proofs
    THEN LET aw == acc.accumulated_weight + w[key]
         IN  [accumulated_sigs   |-> acc.accumulated_sigs \cup {key},
              accumulated_weight |-> aw,
              brk                |-> is_weak_finality(aw, total_weight(w))]
    ELSE [accumulated_sigs   |-> acc.accumulated_sigs,
          accumulated_weight |-> acc.accumulated_weight,
          brk                |-> FALSE]

\* BTreeSet::pop_first: the least element in PublicKey order.
pop_first_heaviest(S) == CHOOSE k \in S : \A y \in S : y <= k

pop_first(S) == Min(S)

\* One iteration of the strict-finality loop; `ret` is "false" on the early
\* return, "none" otherwise.
pop_step(acc, w) ==
    IF acc.accumulated_sigs = {}
    THEN [accumulated_sigs   |-> {},
          accumulated_weight |-> acc.accumulated_weight,
          ret                |-> "false"]
    ELSE LET popped_sig == pop_first(acc.accumulated_sigs)
         IN  [accumulated_sigs   |-> acc.accumulated_sigs \ {popped_sig},
              accumulated_weight |-> acc.accumulated_weight - w[popped_sig],
              ret                |-> "none"]

\* signatures.proofs.retain(|key, _| accumulated_sigs.contains(key))
retain_resigned(sigs, keep) ==
    [sigs EXCEPT !.proofs =
        [k \in (DOMAIN sigs.proofs) \cap keep |-> SignatureOf(0, k)]]

\* retain that also drops the least key of the accumulated set.
retain_without_least(sigs, keep) ==
    [sigs EXCEPT !.proofs =
        Restrict(sigs.proofs, IF keep = {} THEN {} ELSE keep \ {Min(keep)})]

retain(sigs, keep) ==
    [sigs EXCEPT !.proofs = Restrict(sigs.proofs, keep)]

RECURSIVE run_walk(_, _, _, _)
run_walk(acc, i, sigs, w) ==
    IF i > Len(inverse_order(w)) THEN acc
    ELSE LET nxt == walk_step(acc, inverse_order(w)[i], sigs, w)
         IN  IF nxt.brk THEN nxt ELSE run_walk(nxt, i + 1, sigs, w)

RECURSIVE run_pop(_, _)
run_pop(acc, w) ==
    IF ~ is_strict_finality(acc.accumulated_weight, total_weight(w))
    THEN [accumulated_sigs   |-> acc.accumulated_sigs,
          accumulated_weight |-> acc.accumulated_weight,
          ret                |-> "none"]
    ELSE LET nxt == pop_step(acc, w)
         IN  IF nxt.ret = "false" THEN nxt ELSE run_pop(nxt, w)

\* strip_signatures as one call: the returned bool and the record as the
\* call leaves it.
\* strip_signatures that empties the proofs when it gives up.
strip_signatures_clears_on_false(sigs, w) ==
    LET walked == run_walk([accumulated_sigs |-> {}, accumulated_weight |-> 0,
                            brk |-> FALSE], 1, sigs, w)
        popped == run_pop(walked, w)
    IN  IF \/ popped.ret = "false"
           \/ ~ is_weak_finality(popped.accumulated_weight, total_weight(w))
        THEN [ok |-> FALSE, signatures |-> retain(sigs, {})]
        ELSE [ok |-> TRUE, signatures |-> retain(sigs, popped.accumulated_sigs)]

strip_signatures(sigs, w) ==
    LET walked == run_walk([accumulated_sigs |-> {}, accumulated_weight |-> 0,
                            brk |-> FALSE], 1, sigs, w)
        popped == run_pop(walked, w)
    IN  IF popped.ret = "false"
        THEN [ok |-> FALSE, signatures |-> sigs]
        ELSE IF ~ is_weak_finality(popped.accumulated_weight, total_weight(w))
        THEN [ok |-> FALSE, signatures |-> sigs]
        ELSE [ok |-> TRUE, signatures |-> retain(sigs, popped.accumulated_sigs)]

----------------------------------------------------------------------------
\* The call in steps, one action per loop iteration or return.

\* Weight maps: any subset of the keys as validators, each with a stake in
\* 1..MaxWeight.
WeightMaps == UNION {[D -> 1 .. MaxWeight] : D \in SUBSET Keys}

\* Signature records of block b: any subset of the keys signs.
SignatureSets(b, e) ==
    {[block_hash |-> b, era_id |-> e,
      proofs |-> [k \in P |-> SignatureOf(b, k)]] : P \in SUBSET Keys}

StripIdle == [pc |-> "idle", i |-> 0, accumulated_sigs |-> {},
              accumulated_weight |-> 0, ret |-> "none", pops |-> 0]

PurgeIdle == [pc |-> "idle", full_purge |-> FALSE, heights_to_visit |-> <<>>,
              txn |-> <<>>, log |-> <<>>]

\* No store is open: neither the slicer nor the summarizer is running.
StoreIdle ==
    /\ source = <<>>
    /\ destination = [exists |-> FALSE, env |-> <<>>]
    /\ slice = [pc |-> "idle"]
    /\ stats = [pc |-> "idle"]

\* maybe_progress_tracker = None
NoTracker == Err(<<"None", 0>>)

\* No tracker was built and no output path was given.
ReportIdle ==
    /\ progress_tracker = NoTracker
    /\ out_file = [exists |-> FALSE]

StripInit ==
    /\ weights \in WeightMaps
    /\ signatures \in SignatureSets(1, 1)
    /\ signatures0 = signatures
    /\ strip = [pc |-> "walk", i |-> 1, accumulated_sigs |-> {},
                accumulated_weight |-> 0, ret |-> "none", pops |-> 0]
    /\ block_header = <<>>
    /\ block_metadata = <<>>
    /\ weak_finality_block_list = {}
    /\ no_finality_block_list = {}
    /\ indices = EmptyIndices
    /\ run = PurgeIdle
    /\ StoreIdle
    /\ ReportIdle

\* signatures.rs:30-42, one validator of the walk.
StripWalk ==
    /\ strip.pc = "walk"
    /\ strip.i <= Len(inverse_order(weights))
    /\ LET nxt == walk_step(strip, inverse_order(weights)[strip.i],
                            signatures, weights)
       IN  strip' = [strip EXCEPT
                        !.accumulated_sigs = nxt.accumulated_sigs,
                        !.accumulated_weight = nxt.accumulated_weight,
                        !.i = strip.i + 1,
                        !.pc = IF nxt.brk THEN "pop" ELSE "walk"]
    /\ UNCHANGED <<weights, signatures, signatures0>>
    /\ UNCHANGED <<purgeVars, storeVars, reportVars>>

\* signatures.rs:30-42, the walk runs out of validators.
StripWalkEnd ==
    /\ strip.pc = "walk"
    /\ strip.i > Len(inverse_order(weights))
    /\ strip' = [strip EXCEPT !.pc = "pop"]
    /\ UNCHANGED <<weights, signatures, signatures0>>
    /\ UNCHANGED <<purgeVars, storeVars, reportVars>>

\* signatures.rs:43-50, one iteration of the strict-finality loop.
StripPop ==
    /\ strip.pc = "pop"
    /\ is_strict_finality(strip.accumulated_weight, total_weight(weights))
    /\ LET nxt == pop_step(strip, weights)
       IN  strip' = [strip EXCEPT
                        !.accumulated_sigs = nxt.accumulated_sigs,
                        !.accumulated_weight = nxt.accumulated_weight,
                        !.ret = nxt.ret,
                        !.pops = IF nxt.ret = "false" THEN strip.pops
                                 ELSE strip.pops + 1,
                        !.pc = IF nxt.ret = "false" THEN "done" ELSE "pop"]
    /\ UNCHANGED <<weights, signatures, signatures0>>
    /\ UNCHANGED <<purgeVars, storeVars, reportVars>>

\* signatures.rs:51-53
StripReturnFalse ==
    /\ strip.pc = "pop"
    /\ ~ is_strict_finality(strip.accumulated_weight, total_weight(weights))
    /\ ~ is_weak_finality(strip.accumulated_weight, total_weight(weights))
    /\ strip' = [strip EXCEPT !.ret = "false", !.pc = "done"]
    /\ UNCHANGED <<weights, signatures, signatures0>>
    /\ UNCHANGED <<purgeVars, storeVars, reportVars>>

\* signatures.rs:54-57
StripRetain ==
    /\ strip.pc = "pop"
    /\ ~ is_strict_finality(strip.accumulated_weight, total_weight(weights))
    /\ is_weak_finality(strip.accumulated_weight, total_weight(weights))
    /\ signatures' = retain(signatures, strip.accumulated_sigs)
    /\ strip' = [strip EXCEPT !.ret = "true", !.pc = "done"]
    /\ UNCHANGED <<weights, signatures0>>
    /\ UNCHANGED <<purgeVars, storeVars, reportVars>>

StripNext ==
    \/ StripWalk
    \/ StripWalkEnd
    \/ StripPop
    \/ StripReturnFalse
    \/ StripRetain

SpecStrip == StripInit /\ [][StripNext]_vars

\* The stepwise call and the one-call operator agree on every input.
StripStepsAgree ==
    strip.pc = "done" =>
        LET r == strip_signatures(signatures0, weights)
        IN  /\ r.ok = (strip.ret = "true")
            /\ r.signatures = signatures

(***************************************************************************)
(* Part 2: the purge run                                                   *)
(*                                                                         *)
(* A sub-database is a function from raw keys to raw values.  A raw value  *)
(* is either the bincode image of a record or bytes that do not parse.     *)
(***************************************************************************)
Garbage == <<"bytes", 0, 1, 2>>

\* bincode::serialize(&BlockSignatures): the fields in declaration order, the
\* proofs map as its entries in key order.
RECURSIVE proof_entries(_, _)
proof_entries(proofs, S) ==
    IF S = {} THEN <<>>
    ELSE <<<<Min(S), proofs[Min(S)]>>>> \o proof_entries(proofs, S \ {Min(S)})

serialize_signatures(sigs) ==
    <<"BlockSignatures", sigs.block_hash, sigs.era_id,
      proof_entries(sigs.proofs, DOMAIN sigs.proofs)>>

\* bincode::deserialize::<BlockSignatures>: an error when the bytes do not
\* parse.
deserialize_signatures(raw) ==
    IF raw[1] # "BlockSignatures" THEN Err(<<"bincode", 0>>)
    ELSE Ok([block_hash |-> raw[2], era_id |-> raw[3],
             proofs |-> [k \in {raw[4][n][1] : n \in 1 .. Len(raw[4])} |->
                        LET n == CHOOSE m \in 1 .. Len(raw[4]) : raw[4][m][1] = k
                        IN  raw[4][n][2]]])

\* bincode image of a BlockHeader; the fields the toolkit reads.
serialize_header(h) ==
    <<"BlockHeader", h.height, h.era_id, h.protocol_version,
      h.is_switch_block, h.next_era_validator_weights,
      h.body_hash, h.state_root_hash>>

deserialize_header(raw) ==
    IF raw[1] # "BlockHeader" THEN Err(<<"bincode", 0>>)
    ELSE Ok([height |-> raw[2], era_id |-> raw[3], protocol_version |-> raw[4],
             is_switch_block |-> raw[5],
             next_era_validator_weights |-> raw[6],
             body_hash |-> raw[7], state_root_hash |-> raw[8]])

\* EraId::is_genesis and EraId::successor
is_genesis_never(era_id) == FALSE

is_genesis(era_id) == era_id = 0
\* The era itself instead of its successor.
successor_same_era(era_id) == era_id

successor(era_id) == era_id + 1

\* insert (BTreeMap::insert, txn.put) and delete (txn.del) on maps modelled
\* as functions
Put(m, k, v) == [x \in (DOMAIN m) \cup {k} |-> IF x = k THEN v ELSE m[x]]

\* Del that removes every row of the sub-database.
Del_every_row(m, k) == <<>>

Del_keeps_row(m, k) == m

Del(m, k) == [x \in (DOMAIN m) \ {k} |-> m[x]]

----------------------------------------------------------------------------
\* initialize_indices (purge.rs:75-145)

\* The body of the cursor loop for one row, acc = the indices so far, the
\* last_blocks_before_upgrade map and the error that ended the scan, if any.
index_row(acc, block_hash, raw_value, needed_heights) ==
    LET des == deserialize_header(raw_value)
        parsed == des.value
    IN  IF block_hash < 0
        THEN acc    \* Digest::try_from(raw_key) failed: logged and skipped
        ELSE IF ~ des.ok
        THEN [acc EXCEPT !.err = <<"HeaderParsing", block_hash>>]
        ELSE
        LET block_height == parsed.height
            sw == IF parsed.is_switch_block
                  THEN Put(acc.switch_blocks, successor(parsed.era_id), block_hash)
                  ELSE acc.switch_blocks
            pv == parsed.protocol_version
            last == IF ~ parsed.is_switch_block THEN acc.last_blocks_before_upgrade
                    ELSE IF pv \notin DOMAIN acc.last_blocks_before_upgrade
                    THEN Put(acc.last_blocks_before_upgrade, pv, block_height)
                    ELSE IF acc.last_blocks_before_upgrade[pv] < block_height
                    THEN Put(acc.last_blocks_before_upgrade, pv, block_height)
                    ELSE acc.last_blocks_before_upgrade
        IN  IF block_height \in needed_heights
            THEN [heights |-> Put(acc.heights, block_height,
                                  [hash |-> block_hash, header |-> parsed]),
                  switch_blocks |-> sw,
                  last_blocks_before_upgrade |-> last,
                  err |-> IF block_height \in DOMAIN acc.heights
                          THEN <<"DuplicateBlock", block_height>>
                          ELSE NoError]
            ELSE [heights |-> acc.heights, switch_blocks |-> sw,
                  last_blocks_before_upgrade |-> last, err |-> NoError]

RECURSIVE index_scan(_, _, _, _)
index_scan(acc, rows, db, needed_heights) ==
    IF rows = <<>> \/ acc.err # NoError THEN acc
    ELSE index_scan(index_row(acc, Head(rows), db[Head(rows)], needed_heights),
                    Tail(rows), db, needed_heights)

\* initialize_indices that indexes no height at all.
initialize_indices_no_height(db, needed_heights) ==
    IF DOMAIN db = {} THEN Err(<<"EmptyDatabase", 0>>)
    ELSE
    LET scanned == index_scan([heights |-> <<>>, switch_blocks |-> <<>>,
                               last_blocks_before_upgrade |-> <<>>,
                               err |-> NoError],
                              Ascending(DOMAIN db), db, {})
        versions == DOMAIN scanned.last_blocks_before_upgrade
        before == versions \ (IF versions = {} THEN {} ELSE {Max(versions)})
    IN  IF scanned.err # NoError THEN Err(scanned.err)
        ELSE Ok([heights |-> scanned.heights,
                 switch_blocks |-> scanned.switch_blocks,
                 switch_blocks_before_upgrade |->
                     {scanned.last_blocks_before_upgrade[v] : v \in before}])

\* initialize_indices that indexes every height, requested or not.
initialize_indices_every_height(db, needed_heights) ==
    IF DOMAIN db = {} THEN Err(<<"EmptyDatabase", 0>>)
    ELSE
    LET scanned == index_scan([heights |-> <<>>, switch_blocks |-> <<>>,
                               last_blocks_before_upgrade |-> <<>>,
                               err |-> NoError],
                              Ascending(DOMAIN db), db, Nat)
    IN  IF scanned.err # NoError THEN Err(scanned.err)
        ELSE Ok([heights |-> scanned.heights,
                 switch_blocks |-> scanned.switch_blocks,
                 switch_blocks_before_upgrade |-> {}])

initialize_indices(db, needed_heights) ==
    IF DOMAIN db = {} THEN Err(<<"EmptyDatabase", 0>>)
    ELSE
    LET scanned == index_scan([heights |-> <<>>, switch_blocks |-> <<>>,
                               last_blocks_before_upgrade |-> <<>>,
                               err |-> NoError],
                              Ascending(DOMAIN db), db, needed_heights)
        versions == DOMAIN scanned.last_blocks_before_upgrade
        \* pop_last drops the entry of the highest protocol version
        before == versions \ (IF versions = {} THEN {} ELSE {Max(versions)})
    IN  IF scanned.err # NoError THEN Err(scanned.err)
        ELSE Ok([heights |-> scanned.heights,
                 switch_blocks |-> scanned.switch_blocks,
                 switch_blocks_before_upgrade |->
                     {scanned.last_blocks_before_upgrade[v] : v \in before}])

----------------------------------------------------------------------------
\* EraWeights (purge.rs:27-62)

EraWeightsDefault == [era_id |-> 0, weights |-> <<>>, era_after_upgrade |-> FALSE]

\* refresh_weights_for_era that returns on a cache hit only (never reloads).
refresh_keeps_cached_weights(ew, db, idx, era_id) ==
    IF ew.era_id = era_id \/ ew.weights # <<>>
    THEN [era_weights |-> [ew EXCEPT !.era_id = era_id],
          res |-> Ok(ew.era_after_upgrade)]
    ELSE IF era_id \notin DOMAIN idx.switch_blocks
    THEN [era_weights |-> ew, res |-> Err(<<"MissingEraWeights", era_id>>)]
    ELSE
    LET h == deserialize_header(db[idx.switch_blocks[era_id]])
    IN  IF ~ h.ok \/ ~ h.value.next_era_validator_weights.some
        THEN [era_weights |-> ew, res |-> Err(<<"MissingEraWeights", era_id>>)]
        ELSE [era_weights |-> [era_id |-> era_id,
                               weights |-> h.value.next_era_validator_weights.v,
                               era_after_upgrade |-> FALSE],
              res |-> Ok(FALSE)]

\* The cache after the call and the call's result.
refresh_weights_for_era(ew, db, idx, era_id) ==
    IF ew.era_id = era_id
    THEN [era_weights |-> ew, res |-> Ok(ew.era_after_upgrade)]
    ELSE IF era_id \notin DOMAIN idx.switch_blocks
    THEN [era_weights |-> ew, res |-> Err(<<"MissingEraWeights", era_id>>)]
    ELSE
    LET switch_block_hash == idx.switch_blocks[era_id]
    IN  IF switch_block_hash \notin DOMAIN db
        THEN [era_weights |-> ew,
              res |-> Err(<<"Database", switch_block_hash>>)]
        ELSE
        LET des == deserialize_header(db[switch_block_hash])
            switch_block_header == des.value
        IN  IF ~ des.ok
            THEN [era_weights |-> ew,
                  res |-> Err(<<"HeaderParsing", switch_block_hash>>)]
            ELSE
            LET flag == switch_block_header.height
                            \in idx.switch_blocks_before_upgrade
            IN  IF ~ switch_block_header.next_era_validator_weights.some
                THEN [era_weights |-> [ew EXCEPT !.era_after_upgrade = flag],
                      res |-> Err(<<"MissingEraWeights", era_id>>)]
                ELSE [era_weights |->
                          [era_id |-> era_id,
                           weights |->
                               switch_block_header.next_era_validator_weights.v,
                           era_after_upgrade |-> flag],
                      res |-> Ok(flag)]

----------------------------------------------------------------------------
\* purge_signatures_for_blocks (purge.rs:147-238)

\* purge.rs:200-212, the match on txn.get(signatures_db, &block_hash)
read_signatures(txn, block_hash) ==
    IF block_hash \notin DOMAIN txn
    THEN [kind |-> "not_found"]
    ELSE LET des == deserialize_signatures(txn[block_hash])
         IN  IF des.ok THEN [kind |-> "signatures", value |-> des.value]
             ELSE [kind |-> "error",
                   error |-> <<"SignaturesParsing", block_hash>>]

\* The body of the `for height in heights_to_visit` loop: the write
\* transaction's view of block_metadata and the cache after the iteration,
\* what the iteration logged, and the error it returned with, if any.
purge_visit(txn, ew, db, idx, height, full_purge) ==
    IF height \notin DOMAIN idx.heights
    THEN [txn |-> txn, era_weights |-> ew, outcome |-> "not_present",
          err |-> NoError]
    ELSE
    LET block_hash == idx.heights[height].hash
        block_header_ == idx.heights[height].header
        era_id == block_header_.era_id
    IN  IF is_genesis(era_id)
        THEN [txn |-> txn, era_weights |-> ew, outcome |-> "genesis",
              err |-> NoError]
        ELSE
        LET refreshed == refresh_weights_for_era(ew, db, idx, era_id)
            cache == refreshed.era_weights
        IN  IF ~ refreshed.res.ok
            THEN [txn |-> txn, era_weights |-> cache, outcome |-> "error",
                  err |-> refreshed.res.error]
            ELSE
            LET des == read_signatures(txn, block_hash)
            IN  IF des.kind = "not_found"
                THEN [txn |-> txn, era_weights |-> cache,
                      outcome |-> "no_signatures", err |-> NoError]
                ELSE IF des.kind = "error"
                THEN [txn |-> txn, era_weights |-> cache, outcome |-> "error",
                      err |-> des.error]
                ELSE IF full_purge
                THEN [txn |-> Del(txn, block_hash), era_weights |-> cache,
                      outcome |-> "deleted", err |-> NoError]
                ELSE
                LET stripped == strip_signatures(des.value, cache.weights)
                IN  IF stripped.ok
                    THEN [txn |-> Put(txn, block_hash,
                                      serialize_signatures(stripped.signatures)),
                          era_weights |-> cache,
                          outcome |-> IF refreshed.res.value
                                      THEN "stripped_inaccurate"
                                      ELSE "stripped",
                          err |-> NoError]
                    ELSE [txn |-> txn, era_weights |-> cache,
                          outcome |-> "could_not_strip", err |-> NoError]

----------------------------------------------------------------------------
\* The databases a run starts from.

NBlocks == 2

Blocks == 1 .. NBlocks
Eras == {0, 1, 2}
SwitchEras == {0, 1}

\* Row keys and heights.  Era e spans the heights 10e .. 10e+9 and its switch
\* block is the last of them; no row has height 99.
BlockHash(i) == 50 + i
SwitchHash(e) == 100 + e
BlockHeight(i, e) == 10 * e + i
SwitchHeight(e) == 10 * e + 9
AbsentHeight == BlockHeight(9, 9)

\* The protocol was upgraded at the boundary between era 0 and era 1.
VersionOfEra(e) == IF e = 0 THEN 1 ELSE 2

EqualWeights == [k \in Keys |-> 1]
ProgressiveWeights == [k \in Keys |-> k + 1]

\* A switch block row: absent, without era end weights, or advertising one
\* of two validator sets.
SwitchKinds == {"absent", "no_weights", "equal", "progressive"}

SwitchHeader(e, kind) ==
    [height |-> SwitchHeight(e), era_id |-> e,
     protocol_version |-> VersionOfEra(e), is_switch_block |-> TRUE,
     next_era_validator_weights |->
        IF kind = "equal" THEN Some(EqualWeights)
        ELSE IF kind = "progressive" THEN Some(ProgressiveWeights)
        ELSE None,
     body_hash |-> 0, state_root_hash |-> 0]

MockBlockHeader(i, e) ==
    [height |-> BlockHeight(i, e), era_id |-> e,
     protocol_version |-> VersionOfEra(e), is_switch_block |-> FALSE,
     next_era_validator_weights |-> None,
     body_hash |-> 0, state_root_hash |-> 0]

\* A block_metadata row of a block: absent, unparsable, signed by every key,
\* or signed by the first key only.
MetadataKinds == {"absent", "garbage", "all", "first"}

MockSignatures(i, e, kind) ==
    [block_hash |-> BlockHash(i), era_id |-> e,
     proofs |-> [k \in (IF kind = "all" THEN Keys ELSE {Min(Keys)}) |->
                    SignatureOf(BlockHash(i), k)]]

HeaderDb(era_of, switch_kind) ==
    [key \in {BlockHash(i) : i \in Blocks}
             \cup {SwitchHash(e) : e \in {x \in SwitchEras :
                                            switch_kind[x] # "absent"}} |->
        IF key \in {BlockHash(i) : i \in Blocks}
        THEN LET i == CHOOSE j \in Blocks : BlockHash(j) = key
             IN  serialize_header(MockBlockHeader(i, era_of[i]))
        ELSE LET e == CHOOSE x \in SwitchEras : SwitchHash(x) = key
             IN  serialize_header(SwitchHeader(e, switch_kind[e]))]

MetadataDb(era_of, meta_kind) ==
    [key \in {BlockHash(i) : i \in {j \in Blocks : meta_kind[j] # "absent"}} |->
        LET i == CHOOSE j \in Blocks : BlockHash(j) = key
        IN  IF meta_kind[i] = "garbage" THEN Garbage
            ELSE serialize_signatures(MockSignatures(i, era_of[i], meta_kind[i]))]

\* Height lists: a target is a block (by index) or 0 for a height that no
\* header has.
Targets == Blocks \cup {0}
HeightsOf(T, era_of) ==
    {IF t = 0 THEN AbsentHeight ELSE BlockHeight(t, era_of[t]) : t \in T}

ListChoices ==
    { <<Targets, {}>>, <<{}, Targets>>, <<Targets, Targets>>,
      <<{Min(Blocks)}, {Max(Blocks)}>>, <<Targets, {Min(Blocks)}>>,
      <<{Min(Blocks)}, {}>>, <<{}, {Max(Blocks)}>>,
      <<{}, {}>> }

\* Locals of purge_signatures and of the purge_signatures_for_blocks call in
\* progress; meta0 / call_meta0 remember block_metadata as the run / the
\* call found it, log is what the calls logged per visited height and
\* whether the iteration wrote to the transaction.
RunStart(meta) ==
    [pc |-> "start", full_purge |-> FALSE, heights_to_visit |-> <<>>,
     txn |-> <<>>, era_weights |-> EraWeightsDefault, err |-> NoError,
     log |-> <<>>, meta0 |-> meta, call_meta0 |-> meta]

PurgeInit ==
    /\ \E era_of \in [Blocks -> Eras], switch_kind \in [SwitchEras -> SwitchKinds],
          meta_kind \in [Blocks -> MetadataKinds], lists \in ListChoices :
          /\ block_header = HeaderDb(era_of, switch_kind)
          /\ block_metadata = MetadataDb(era_of, meta_kind)
          /\ weak_finality_block_list = HeightsOf(lists[1], era_of)
          /\ no_finality_block_list = HeightsOf(lists[2], era_of)
    /\ indices = EmptyIndices
    /\ run = RunStart(block_metadata)
    /\ weights = <<>>
    /\ signatures = [block_hash |-> 0, era_id |-> 0, proofs |-> <<>>]
    /\ signatures0 = signatures
    /\ strip = StripIdle
    /\ StoreIdle
    /\ ReportIdle

\* purge.rs:245-251
InitializeIndices ==
    /\ run.pc = "start"
    /\ LET built == initialize_indices(block_header,
                        weak_finality_block_list \cup no_finality_block_list)
       IN  IF built.ok
           THEN /\ indices' = built.value
                /\ run' = [run EXCEPT !.pc = "weak"]
           ELSE /\ indices' = indices
                /\ run' = [run EXCEPT !.pc = "failed", !.err = built.error]
    /\ UNCHANGED <<block_header, block_metadata, weak_finality_block_list,
                   no_finality_block_list>>
    /\ UNCHANGED <<stripVars, storeVars, reportVars>>

\* purge.rs:153-177, entry of purge_signatures_for_blocks
begin_call(r, meta, list, full_purge) ==
    [r EXCEPT !.pc = "loop", !.full_purge = full_purge,
              !.heights_to_visit = Ascending(list), !.txn = meta,
              !.era_weights = EraWeightsDefault, !.call_meta0 = meta]

\* purge.rs:252-254
BeginWeak ==
    /\ run.pc = "weak"
    /\ weak_finality_block_list # {}
    /\ run' = begin_call(run, block_metadata, weak_finality_block_list, FALSE)
    /\ UNCHANGED <<block_header, block_metadata, weak_finality_block_list,
                   no_finality_block_list, indices>>
    /\ UNCHANGED <<stripVars, storeVars, reportVars>>

SkipWeak ==
    /\ run.pc = "weak"
    /\ weak_finality_block_list = {}
    /\ run' = [run EXCEPT !.pc = "full"]
    /\ UNCHANGED <<block_header, block_metadata, weak_finality_block_list,
                   no_finality_block_list, indices>>
    /\ UNCHANGED <<stripVars, storeVars, reportVars>>

\* BeginFull with the heights of the weak-finality list removed first.
BeginFullDeduped ==
    /\ run.pc = "full"
    /\ no_finality_block_list # {}
    /\ run' = begin_call(run, block_metadata,
                         no_finality_block_list \ weak_finality_block_list, TRUE)
    /\ UNCHANGED <<block_header, block_metadata, weak_finality_block_list,
                   no_finality_block_list, indices>>
    /\ UNCHANGED <<stripVars, storeVars, reportVars>>

\* purge.rs:255-257
BeginFull ==
    /\ run.pc = "full"
    /\ no_finality_block_list # {}
    /\ run' = begin_call(run, block_metadata, no_finality_block_list, TRUE)
    /\ UNCHANGED <<block_header, block_metadata, weak_finality_block_list,
                   no_finality_block_list, indices>>
    /\ UNCHANGED <<stripVars, storeVars, reportVars>>

SkipFull ==
    /\ run.pc = "full"
    /\ no_finality_block_list = {}
    /\ run' = [run EXCEPT !.pc = "done"]
    /\ UNCHANGED <<block_header, block_metadata, weak_finality_block_list,
                   no_finality_block_list, indices>>
    /\ UNCHANGED <<stripVars, storeVars, reportVars>>

\* purge.rs:179-235, one iteration that does not return an error
PurgeVisit ==
    /\ run.pc = "loop"
    /\ run.heights_to_visit # <<>>
    /\ LET height == Head(run.heights_to_visit)
           v == purge_visit(run.txn, run.era_weights, block_header, indices,
                            height, run.full_purge)
       IN  /\ v.err = NoError
           /\ run' = [run EXCEPT
                        !.txn = v.txn,
                        !.era_weights = v.era_weights,
                        !.heights_to_visit = Tail(run.heights_to_visit),
                        !.log = Append(run.log,
                                       [full_purge |-> run.full_purge,
                                        height |-> height,
                                        outcome |-> v.outcome,
                                        changed |-> v.txn # run.txn])]
    /\ UNCHANGED <<block_header, block_metadata, weak_finality_block_list,
                   no_finality_block_list, indices>>
    /\ UNCHANGED <<stripVars, storeVars, reportVars>>

\* PurgeVisitError that commits what the transaction holds before returning.
PurgeVisitErrorCommits ==
    /\ run.pc = "loop"
    /\ run.heights_to_visit # <<>>
    /\ LET height == Head(run.heights_to_visit)
           v == purge_visit(run.txn, run.era_weights, block_header, indices,
                            height, run.full_purge)
       IN  /\ v.err # NoError
           /\ run' = [run EXCEPT
                        !.pc = "failed",
                        !.err = v.err,
                        !.era_weights = v.era_weights,
                        !.log = Append(run.log,
                                       [full_purge |-> run.full_purge,
                                        height |-> height,
                                        outcome |-> v.outcome,
                                        changed |-> v.txn # run.txn])]
    /\ block_metadata' = run.txn
    /\ UNCHANGED <<block_header, weak_finality_block_list,
                   no_finality_block_list, indices>>
    /\ UNCHANGED <<stripVars, storeVars, reportVars>>

\* purge.rs:198 / 202, an iteration that returns an error: the write
\* transaction is dropped uncommitted and purge_signatures returns the error.
PurgeVisitError ==
    /\ run.pc = "loop"
    /\ run.heights_to_visit # <<>>
    /\ LET height == Head(run.heights_to_visit)
           v == purge_visit(run.txn, run.era_weights, block_header, indices,
                            height, run.full_purge)
       IN  /\ v.err # NoError
           /\ run' = [run EXCEPT
                        !.pc = "failed",
                        !.err = v.err,
                        !.era_weights = v.era_weights,
                        !.log = Append(run.log,
                                       [full_purge |-> run.full_purge,
                                        height |-> height,
                                        outcome |-> v.outcome,
                                        changed |-> v.txn # run.txn])]
    /\ UNCHANGED <<block_header, block_metadata, weak_finality_block_list,
                   no_finality_block_list, indices>>
    /\ UNCHANGED <<stripVars, storeVars, reportVars>>

\* purge.rs:236-237, txn.commit() and Ok(())
PurgeCommit ==
    /\ run.pc = "loop"
    /\ run.heights_to_visit = <<>>
    /\ block_metadata' = run.txn
    /\ run' = [run EXCEPT !.pc = IF run.full_purge THEN "done" ELSE "full"]
    /\ UNCHANGED <<block_header, weak_finality_block_list,
                   no_finality_block_list, indices>>
    /\ UNCHANGED <<stripVars, storeVars, reportVars>>

PurgeNext ==
    \/ InitializeIndices
    \/ BeginWeak
    \/ SkipWeak
    \/ BeginFull
    \/ SkipFull
    \/ PurgeVisit
    \/ PurgeVisitError
    \/ PurgeCommit

SpecPurge == PurgeInit /\ [][PurgeNext]_vars

----------------------------------------------------------------------------
\* Claims about strip_signatures (checked under SpecStrip)

\* Weak but not strict finality of the signer set S under the weight map w,
\* written out from the definitions 3w > T and 3w > 2T.
WeakNotStrict(S, w) ==
    /\ 3 * WeightOf(S, w) > WeightOf(DOMAIN w, w)
    /\ 3 * WeightOf(S, w) <= 2 * WeightOf(DOMAIN w, w)

StripReturned(b) == strip.pc = "done" /\ strip.ret = b

\* C1: for every weight map with total T > 0 and every signature set P, when
\* strip_signatures returns true the retained proofs are a subset of P (same
\* signers, same signatures) and their summed weight w satisfies 3w > T and
\* 3w <= 2T.
C1_TrueIsWeakNotStrict ==
    (StripReturned("true") /\ total_weight(weights) > 0) =>
        /\ DOMAIN signatures.proofs \subseteq DOMAIN signatures0.proofs
        /\ \A k \in DOMAIN signatures.proofs :
              signatures.proofs[k] = signatures0.proofs[k]
        /\ WeakNotStrict(DOMAIN signatures.proofs, weights)

\* C1 witness: a call that returned true after the strict-finality loop
\* removed a signer, and that dropped at least one proof.
C1_Witness ==
    /\ StripReturned("true")
    /\ total_weight(weights) > 0
    /\ DOMAIN signatures.proofs # DOMAIN signatures0.proofs
    /\ strip.pops > 0

\* C2 (as claimed): when strip_signatures returns false, either the full
\* signer set fails weak finality or every subset of the signers that
\* satisfies weak finality also satisfies strict finality.
C2_FalseOnlyWhenNoSubset ==
    StripReturned("false") =>
        \A S \in SUBSET (DOMAIN signatures0.proofs) :
            ~ WeakNotStrict(S, weights)

\* C3 (as claimed): when strip_signatures returns true no proper subset of
\* the retained signers satisfies weak finality without strict finality.
C3_RetainedIsMinimal ==
    StripReturned("true") =>
        \A S \in SUBSET (DOMAIN signatures.proofs) :
            S # DOMAIN signatures.proofs => ~ WeakNotStrict(S, weights)

\* C3 (amended): when strip_signatures returns true the retained signers are
\* validators that signed, they satisfy weak but not strict finality, and
\* the set is minimal with respect to its heaviest signer only: dropping a
\* retained signer of greatest weight leaves a set that fails weak finality.
C3_RetainedNeedsHeaviest ==
    StripReturned("true") =>
        LET kept == DOMAIN signatures.proofs
        IN  /\ kept \subseteq (DOMAIN weights) \cap (DOMAIN signatures0.proofs)
            /\ WeakNotStrict(kept, weights)
            /\ \A k \in kept :
                  (\A j \in kept : weights[j] <= weights[k]) =>
                      3 * WeightOf(kept \ {k}, weights)
                          <= WeightOf(DOMAIN weights, weights)

\* C3 witness: a true return that retains several signers although a proper
\* subset of them already satisfies weak but not strict finality.
C3_Witness ==
    /\ StripReturned("true")
    /\ Cardinality(DOMAIN signatures.proofs) >= 2
    /\ \E S \in SUBSET (DOMAIN signatures.proofs) :
          S # DOMAIN signatures.proofs /\ WeakNotStrict(S, weights)

\* C23: every iteration of the strict-finality loop that removes a signer
\* removes an included signer of smallest weight among those currently
\* included, and subtracts exactly that signer's weight from the
\* accumulated weight.
C23_PopRemovesSmallestWeight ==
    [][(strip.pc = "pop" /\ strip'.pops = strip.pops + 1) =>
          \E k \in strip.accumulated_sigs :
              /\ \A j \in strip.accumulated_sigs : weights[k] <= weights[j]
              /\ strip'.accumulated_sigs = strip.accumulated_sigs \ {k}
              /\ strip'.accumulated_weight =
                     strip.accumulated_weight - weights[k]]_vars

\* The validators that signed.
Signers == (DOMAIN weights) \cap (DOMAIN signatures0.proofs)

\* Validator j comes before validator k in ascending weight order, equal
\* weights in PublicKey order.
Before(j, k) ==
    \/ weights[j] < weights[k]
    \/ weights[j] = weights[k] /\ j < k

\* The sets of signers that are closed under Before and satisfy weak
\* finality: the prefixes of the signing validators that cross the threshold.
WeakPrefixes ==
    {S \in SUBSET Signers :
        /\ \A k \in S : \A j \in Signers \ S : Before(k, j)
        /\ 3 * WeightOf(S, weights) > WeightOf(DOMAIN weights, weights)}

\* C24 (as claimed): when strip_signatures returns true, the summed weight
\* of the retained signers is the smallest weight of any subset of the
\* signing validators that satisfies weak finality.
C24_RetainedWeightIsSmallest ==
    StripReturned("true") =>
        \A S \in SUBSET Signers :
            3 * WeightOf(S, weights) > WeightOf(DOMAIN weights, weights)
                => WeightOf(DOMAIN signatures.proofs, weights)
                       <= WeightOf(S, weights)

\* C24 (amended): when strip_signatures returns true, the summed weight of
\* the retained signers is at most the weight of every prefix of the signing
\* validators (ascending weight, ties by PublicKey) that satisfies weak
\* finality, and when the strict-finality loop removed nobody the retained
\* set is itself such a prefix: the weight is the smallest among prefixes,
\* not among all subsets.
C24_RetainedWeightIsSmallestPrefix ==
    StripReturned("true") =>
        /\ \A S \in WeakPrefixes :
              WeightOf(DOMAIN signatures.proofs, weights)
                  <= WeightOf(S, weights)
        /\ strip.pops = 0 => DOMAIN signatures.proofs \in WeakPrefixes

\* C24 witness: a true return without removals whose retained weight
\* exceeds the weight of another set of signers that satisfies weak
\* finality.
C24_Witness ==
    /\ StripReturned("true")
    /\ strip.pops = 0
    /\ \E S \in SUBSET Signers :
          /\ 3 * WeightOf(S, weights) > WeightOf(DOMAIN weights, weights)
          /\ WeightOf(S, weights)
                 < WeightOf(DOMAIN signatures.proofs, weights)

\* C25: the walk adds signing validators in ascending weight order, equal
\* weights in PublicKey order, and nobody else, and stops at the first
\* point of weak finality: while it runs, the accumulated set is a prefix of
\* the signing validators below weak finality, and when the first prefix
\* that satisfies weak finality does not reach strict finality the call
\* returns true and retains exactly that prefix.
C25_RetainsFirstWeakPrefix ==
    /\ strip.pc = "walk" =>
         /\ strip.accumulated_sigs \subseteq Signers
         /\ \A k \in strip.accumulated_sigs :
               \A j \in Signers \ strip.accumulated_sigs : Before(k, j)
         /\ strip.accumulated_weight
                = WeightOf(strip.accumulated_sigs, weights)
         /\ 3 * strip.accumulated_weight
                <= WeightOf(DOMAIN weights, weights)
    /\ strip.pc = "done" =>
         \A P \in WeakPrefixes :
             (/\ \A S \in WeakPrefixes : P \subseteq S
              /\ 3 * WeightOf(P, weights)
                     <= 2 * WeightOf(DOMAIN weights, weights))
             => /\ strip.ret = "true"
                /\ strip.pops = 0
                /\ DOMAIN signatures.proofs = P

\* C25 witness: a true return that retains one of two signers of equal
\* weight and not the other, together with a lighter signer.
C25_Witness ==
    /\ StripReturned("true")
    /\ Cardinality(DOMAIN signatures.proofs) >= 2
    /\ \E k \in DOMAIN signatures.proofs :
          \E j \in Signers \ DOMAIN signatures.proofs :
              weights[k] = weights[j]

----------------------------------------------------------------------------
\* Claims about the purge run (checked under SpecPurge)

\* The weak call / the full-purge call of the run returned Ok.
WeakCallOk == run.pc = "full" /\ weak_finality_block_list # {}
FullCallOk == run.pc = "done" /\ no_finality_block_list # {}

HashAt(h) == indices.heights[h].hash
EraAt(h) == indices.heights[h].header.era_id
Indexed(list) == list \cap DOMAIN indices.heights

\* The next_era_validator_weights of the switch block indexed for era e.
AdvertisedFor(e) ==
    deserialize_header(block_header[indices.switch_blocks[e]])
        .value.next_era_validator_weights

WeightsLoadable(e) ==
    /\ e \in DOMAIN indices.switch_blocks
    /\ AdvertisedFor(e).some

SameRow(db1, db2, k) ==
    IF k \in DOMAIN db1
    THEN k \in DOMAIN db2 /\ db1[k] = db2[k]
    ELSE k \notin DOMAIN db2

Rewritten(e) == e.outcome \in {"stripped", "stripped_inaccurate"}

\* C4: after a successful weak purge, every rewritten block_metadata record
\* retains signers whose weight satisfies weak but not strict finality under
\* the weights advertised by the switch block indexed at switch_blocks[era]
\* for the era of that block's own header, whatever eras were visited before.
C4_StrippedUnderOwnEraWeights ==
    WeakCallOk =>
        \A i \in DOMAIN run.log :
            (~ run.log[i].full_purge /\ Rewritten(run.log[i])) =>
                LET h == run.log[i].height
                    row == deserialize_signatures(block_metadata[HashAt(h)])
                IN  /\ WeightsLoadable(EraAt(h))
                    /\ row.ok
                    /\ WeakNotStrict(DOMAIN row.value.proofs,
                                     AdvertisedFor(EraAt(h)).v)

\* C4 witness: one weak call rewrote two blocks of different eras whose
\* switch blocks advertise different weights.
C4_Witness ==
    /\ WeakCallOk
    /\ \E i, j \in DOMAIN run.log :
          /\ i < j
          /\ Rewritten(run.log[i]) /\ Rewritten(run.log[j])
          /\ EraAt(run.log[i].height) # EraAt(run.log[j].height)
          /\ AdvertisedFor(EraAt(run.log[i].height))
                # AdvertisedFor(EraAt(run.log[j].height))

\* C5 (as claimed): after a full purge returned Ok, block_metadata has no row
\* for any target block indexed in heights.
C5_FullPurgeRemovesEveryTarget ==
    FullCallOk =>
        \A h \in Indexed(no_finality_block_list) :
            HashAt(h) \notin DOMAIN block_metadata

\* C5 (amended): after a full purge returned Ok, block_metadata has no row
\* for any indexed target block whose header era is not genesis.
C5_FullPurgeRemovesNonGenesisTargets ==
    FullCallOk =>
        \A h \in Indexed(no_finality_block_list) :
            EraAt(h) # 0 => HashAt(h) \notin DOMAIN block_metadata

\* C5 witness: a full purge returned Ok and removed the row of a target.
C5_Witness ==
    /\ FullCallOk
    /\ \E h \in Indexed(no_finality_block_list) :
          /\ EraAt(h) # 0
          /\ HashAt(h) \in DOMAIN run.call_meta0
          /\ HashAt(h) \notin DOMAIN block_metadata

\* C6: after a weak purge returned Ok, every target block that had a
\* block_metadata row still has one under the same key, with the same
\* block_hash and era_id, and its proofs are a subset of the original proofs
\* in which every retained signer keeps its original signature.
C6_WeakPurgePreservesRecord ==
    WeakCallOk =>
        \A h \in Indexed(weak_finality_block_list) :
            HashAt(h) \in DOMAIN run.call_meta0 =>
                /\ HashAt(h) \in DOMAIN block_metadata
                /\ LET old == deserialize_signatures(run.call_meta0[HashAt(h)])
                       new == deserialize_signatures(block_metadata[HashAt(h)])
                   IN  IF ~ old.ok
                       THEN block_metadata[HashAt(h)] = run.call_meta0[HashAt(h)]
                       ELSE /\ new.ok
                            /\ new.value.block_hash = old.value.block_hash
                            /\ new.value.era_id = old.value.era_id
                            /\ DOMAIN new.value.proofs
                                  \subseteq DOMAIN old.value.proofs
                            /\ \A k \in DOMAIN new.value.proofs :
                                  new.value.proofs[k] = old.value.proofs[k]

\* C6 witness: a weak purge returned Ok and left a target's record with
\* fewer proofs than it had.
C6_Witness ==
    /\ WeakCallOk
    /\ \E h \in Indexed(weak_finality_block_list) :
          /\ HashAt(h) \in DOMAIN run.call_meta0
          /\ HashAt(h) \in DOMAIN block_metadata
          /\ deserialize_signatures(run.call_meta0[HashAt(h)]).ok
          /\ DOMAIN deserialize_signatures(block_metadata[HashAt(h)]).value.proofs
                # DOMAIN deserialize_signatures(run.call_meta0[HashAt(h)]).value.proofs

\* Position of the visit of height h by the weak (f = FALSE) or full-purge
\* (f = TRUE) call in the log, as a set.
VisitsOf(h, f) ==
    {i \in DOMAIN run.log : run.log[i].height = h /\ run.log[i].full_purge = f}

WeakThenFull(h) ==
    \E i \in VisitsOf(h, FALSE) : \E j \in VisitsOf(h, TRUE) : i < j

\* C7 (as claimed): a height in both lists is visited by the weak phase
\* first and the full-purge phase second, and after a successful run the
\* block_metadata row of every block in both lists is absent.
C7_BothListsEndFullyPurged ==
    run.pc = "done" =>
        \A h \in weak_finality_block_list \cap no_finality_block_list :
            /\ WeakThenFull(h)
            /\ h \in DOMAIN indices.heights =>
                  HashAt(h) \notin DOMAIN block_metadata

\* C7 (amended): a height in both lists is visited by the weak phase first
\* and the full-purge phase second, and after a successful run the
\* block_metadata row of every non-genesis block in both lists is absent.
C7_BothListsEndFullyPurgedUnlessGenesis ==
    run.pc = "done" =>
        \A h \in weak_finality_block_list \cap no_finality_block_list :
            /\ WeakThenFull(h)
            /\ (h \in DOMAIN indices.heights /\ EraAt(h) # 0) =>
                  HashAt(h) \notin DOMAIN block_metadata

\* C7 witness: a successful run stripped a block in the weak phase and then
\* deleted its row in the full-purge phase.
C7_Witness ==
    /\ run.pc = "done"
    /\ \E h \in weak_finality_block_list \cap no_finality_block_list :
          /\ \E i \in VisitsOf(h, FALSE) : Rewritten(run.log[i])
          /\ \E j \in VisitsOf(h, TRUE) : run.log[j].outcome = "deleted"
          /\ HashAt(h) \notin DOMAIN block_metadata

\* C8: a target block whose header era is genesis is never modified by
\* either purge mode and causes no error: in every state of the run its
\* block_metadata row, committed and in the open transaction, is the row the
\* run started with, and no visit of it wrote or failed.
C8_GenesisUntouched ==
    \A h \in DOMAIN indices.heights :
        EraAt(h) = 0 =>
            /\ SameRow(block_metadata, run.meta0, HashAt(h))
            /\ run.pc = "loop" => SameRow(run.txn, run.meta0, HashAt(h))
            /\ \A i \in DOMAIN run.log :
                  run.log[i].height = h =>
                      /\ run.log[i].outcome # "error"
                      /\ ~ run.log[i].changed

\* C8 witness: a successful run visited a genesis block that has a row in
\* both modes.
C8_Witness ==
    /\ run.pc = "done"
    /\ \E h \in DOMAIN indices.heights :
          /\ EraAt(h) = 0
          /\ HashAt(h) \in DOMAIN run.meta0
          /\ VisitsOf(h, FALSE) # {}
          /\ VisitsOf(h, TRUE) # {}

\* block_metadata as the call that logged entry e found it.
StartOf(e) == IF e.full_purge /\ run.pc # "full" THEN run.call_meta0 ELSE run.meta0

SkippedOnly(e) ==
    /\ e.outcome \in {"not_present", "genesis", "no_signatures"}
    /\ ~ e.changed

\* A call that returned Ok visited every height of its list and committed
\* what its transaction held.
CallsComplete ==
    /\ WeakCallOk =>
          /\ \A h \in weak_finality_block_list : VisitsOf(h, FALSE) # {}
          /\ block_metadata = run.txn
    /\ FullCallOk =>
          /\ \A h \in no_finality_block_list : VisitsOf(h, TRUE) # {}
          /\ block_metadata = run.txn

\* C9: in either mode a target height with no indexed header,
\* or whose block has no block_metadata row, is skipped with a warning only:
\* its visit returns no error and writes nothing, and the call goes on to
\* process and commit the other targets.
C9_MissingTargetsOnlyWarn ==
    /\ \A i \in DOMAIN run.log :
          LET e == run.log[i]
          IN  (\/ e.height \notin DOMAIN indices.heights
               \/ HashAt(e.height) \notin DOMAIN StartOf(e))
              => SkippedOnly(e)
    /\ CallsComplete

\* C10: when the loop reads a target's block_metadata value and it fails to
\* deserialize, the call returns SignaturesParsing for that block hash and
\* commits nothing: block_metadata is as the call found it, the writes made
\* for earlier targets of the call included.
C10_UnparsableSignaturesAbort ==
    \A i \in DOMAIN run.log :
        LET e == run.log[i]
        IN  (/\ e.height \in DOMAIN indices.heights
             /\ EraAt(e.height) # 0
             /\ WeightsLoadable(EraAt(e.height))
             /\ HashAt(e.height) \in DOMAIN StartOf(e)
             /\ StartOf(e)[HashAt(e.height)] = Garbage)
            => /\ i = Len(run.log)
               /\ run.pc = "failed"
               /\ run.err = <<"SignaturesParsing", HashAt(e.height)>>
               /\ block_metadata = run.call_meta0

\* C10 witness: the call failed on an unparsable row after it had written
\* for an earlier target, and the committed rows are still those it found.
C10_Witness ==
    /\ run.pc = "failed"
    /\ run.err[1] = "SignaturesParsing"
    /\ run.txn # run.call_meta0
    /\ block_metadata = run.call_meta0

\* C26: when strip_signatures returns false for a target of the weak purge,
\* the signature record is as it was read (proofs, block_hash and era_id
\* unchanged), the visit writes nothing, and the block_metadata row of that
\* block is not rewritten by the weak purge.
C26_UnstrippedRecordUntouched ==
    \A i \in DOMAIN run.log :
        LET e == run.log[i]
            k == HashAt(e.height)
            old == deserialize_signatures(StartOf(e)[k]).value
        IN  (~ e.full_purge /\ e.outcome = "could_not_strip") =>
                /\ ~ e.changed
                /\ strip_signatures(old, AdvertisedFor(EraAt(e.height)).v)
                       = [ok |-> FALSE, signatures |-> old]
                /\ ~ run.full_purge => SameRow(StartOf(e), run.txn, k)
                /\ WeakCallOk => SameRow(StartOf(e), block_metadata, k)

\* C26 witness: a weak purge returned Ok after strip_signatures returned
\* false for one target that has signers, and it rewrote another target.
C26_Witness ==
    /\ WeakCallOk
    /\ \E i, j \in DOMAIN run.log :
          /\ run.log[i].outcome = "could_not_strip"
          /\ deserialize_signatures(
                 block_metadata[HashAt(run.log[i].height)]).value.proofs # <<>>
          /\ Rewritten(run.log[j])

\* C27: in full-purge mode the visit of a non-genesis target block that has
\* a (readable) block_metadata row deletes that row, whether or not the
\* validator weights of the block's era can be loaded, and a full purge that
\* returned Ok left no such row.
C27_FullPurgeIgnoresWeights ==
    \A i \in DOMAIN run.log :
        LET e == run.log[i]
        IN  (/\ e.full_purge
             /\ e.height \in DOMAIN indices.heights
             /\ EraAt(e.height) # 0
             /\ HashAt(e.height) \in DOMAIN StartOf(e)
             /\ deserialize_signatures(StartOf(e)[HashAt(e.height)]).ok)
            => /\ e.outcome = "deleted"
               /\ FullCallOk => HashAt(e.height) \notin DOMAIN block_metadata

\* The hashes of the blocks indexed at the heights the run was asked to
\* visit.
TargetHashes ==
    {HashAt(h) : h \in Indexed(weak_finality_block_list
                                  \cup no_finality_block_list)}

\* C32: a purge run never writes block_header nor any store other than
\* block_metadata, and every block_metadata row that is not keyed by the hash
\* of a block indexed at a requested height is, in the committed
\* sub-database and in the open transaction, the row the run found.
C32_PurgeWritesOnlyTargetRows ==
    /\ [][/\ block_header' = block_header
          /\ source' = source
          /\ destination' = destination]_vars
    /\ [](\A k \in (DOMAIN run.meta0 \cup DOMAIN block_metadata
                       \cup DOMAIN run.txn) \ TargetHashes :
             /\ SameRow(run.meta0, block_metadata, k)
             /\ run.pc = "loop" => SameRow(run.meta0, run.txn, k))

\* C32 witness: a run finished after changing block_metadata, and
\* block_metadata holds a row of a block that was no target.
C32_Witness ==
    /\ run.pc = "done"
    /\ block_metadata # run.meta0
    /\ \E k \in DOMAIN block_metadata : k \notin TargetHashes

\* C11: a purge_signatures run that returns an error commits none of its
\* changes: block_metadata after the failed run equals block_metadata before
\* the run, whichever step (index build, weak phase, full-purge phase)
\* produced the error.
C11_FailedRunCommitsNothing ==
    run.pc = "failed" => block_metadata = run.meta0

(***************************************************************************)
(* Part 3: slice extraction and the execution results summary              *)
(*                                                                         *)
(* A store maps sub-database names to sub-databases.  An ExecutionResult   *)
(* is the natural number of bytes its content encodes to.                  *)
(***************************************************************************)
NDeploys == 2

\* bincode image of a BlockBody: deploy_hashes and transfer_hashes.
serialize_body(b) == <<"BlockBody", b.deploy_hashes, b.transfer_hashes>>

deserialize_body(raw) ==
    IF raw[1] # "BlockBody" THEN Err(<<"bincode", 0>>)
    ELSE Ok([deploy_hashes |-> raw[2], transfer_hashes |-> raw[3]])

\* bincode image of a DeployMetadata: the execution_results map.
serialize_metadata(m) ==
    <<"DeployMetadata",
      proof_entries(m.execution_results, DOMAIN m.execution_results)>>

deserialize_metadata(raw) ==
    IF raw[1] # "DeployMetadata" THEN Err(<<"bincode", 0>>)
    ELSE Ok([execution_results |->
                [k \in {raw[2][n][1] : n \in 1 .. Len(raw[2])} |->
                    LET n == CHOOSE m \in 1 .. Len(raw[2]) : raw[2][m][1] = k
                    IN  raw[2][n][2]]])

DeployMetadataDefault == [execution_results |-> <<>>]

----------------------------------------------------------------------------
\* db_helpers.rs

\* read_from_db: the value, or the lmdb error of the lookup.
\* A lookup of an Unreadable row fails with an lmdb error other than
\* NotFound.
Unreadable == <<"lmdb error">>

read_from_db(txn, db_name, key) ==
    IF db_name \notin DOMAIN txn THEN Err(<<"NotFound", key>>)
    ELSE IF key \notin DOMAIN txn[db_name] THEN Err(<<"NotFound", key>>)
    ELSE IF txn[db_name][key] = Unreadable THEN Err(<<"Other", key>>)
    ELSE Ok(txn[db_name][key])

\* write_to_db: w is the destination RW transaction's view and the list of
\* (sub-database, key) puts made through it so far.
write_to_db(w, db_name, key, value) ==
    [txn |-> [w.txn EXCEPT ![db_name] = Put(@, key, value)],
     writes |-> Append(w.writes, <<db_name, key>>)]

\* transfer_to_new_db that copies the whole sub-database of the key.
transfer_to_new_db_whole_db(src, w, db_name, key) ==
    LET value == read_from_db(src, db_name, key)
    IN  IF value.ok
        THEN [w |-> [txn |-> [w.txn EXCEPT ![db_name] = src[db_name]],
                     writes |-> Append(w.writes, <<db_name, key>>)],
              res |-> value]
        ELSE [w |-> w, res |-> value]

\* transfer_to_new_db: the destination after the call and the call's result.
transfer_to_new_db(src, w, db_name, key) ==
    LET value == read_from_db(src, db_name, key)
    IN  IF value.ok
        THEN [w |-> write_to_db(w, db_name, key, value.value), res |-> value]
        ELSE [w |-> w, res |-> value]

----------------------------------------------------------------------------
\* storage.rs

\* create_output_db, lines 28-35: the sub-databases of a fresh destination.
OutputDbs == {"block_header", "block_body", "deploy", "transfer",
              "deploy_metadata"}

\* The loop body that copies the whole metadata record instead of
\* projecting it to the target block.
transfer_deploy_unprojected(src, w, block_hash, deploy_hash) ==
    LET copied == transfer_to_new_db(src, w, "deploy", deploy_hash)
        metadata_raw == read_from_db(src, "deploy_metadata", deploy_hash)
    IN  IF ~ copied.res.ok THEN [w |-> copied.w, err |-> copied.res.error]
        ELSE IF ~ metadata_raw.ok
        THEN [w |-> copied.w, err |-> metadata_raw.error]
        ELSE [w |-> write_to_db(copied.w, "deploy_metadata", deploy_hash,
                                metadata_raw.value),
              err |-> NoError]

\* storage.rs:90-122, the body of `for deploy_hash in
\* block_body.deploy_hashes()`: the destination transaction after the
\* iteration and the error it returned with, if any.
transfer_deploy(src, w, block_hash, deploy_hash) ==
    LET copied == transfer_to_new_db(src, w, "deploy", deploy_hash)
        metadata_raw == read_from_db(src, "deploy_metadata", deploy_hash)
        metadata == deserialize_metadata(metadata_raw.value)
    IN  IF ~ copied.res.ok THEN [w |-> copied.w, err |-> copied.res.error]
        ELSE IF ~ metadata_raw.ok
        THEN [w |-> copied.w, err |-> metadata_raw.error]
        ELSE IF ~ metadata.ok
        THEN [w |-> copied.w, err |-> <<"Parsing", block_hash>>]
        ELSE IF block_hash \in DOMAIN metadata.value.execution_results
        THEN LET execution_result ==
                     metadata.value.execution_results[block_hash]
                 new_metadata ==
                     [DeployMetadataDefault EXCEPT !.execution_results =
                          Put(@, block_hash, execution_result)]
             IN  [w |-> write_to_db(copied.w, "deploy_metadata", deploy_hash,
                                    serialize_metadata(new_metadata)),
                  err |-> NoError]
        ELSE [w |-> copied.w, err |-> NoError]

----------------------------------------------------------------------------
\* The stores a slice extraction starts from.

\* Hashes: the target block and another block, their bodies, the target's
\* state root, the deploys of the target body and a transfer.
TargetHash == 1
OtherHash == 2
BodyHash == 11
OtherBodyHash == 12
StateRootHash == 13
Deploys == 20 .. (20 + NDeploys - 1)
TransferDeploy == 30

\* The execution result of deploy d in block b.
ResultOf(d, b) == 10 * (d - 20) + b

StoredHeader(body_hash) ==
    serialize_header([height |-> 5, era_id |-> 1, protocol_version |-> 1,
                      is_switch_block |-> FALSE,
                      next_era_validator_weights |-> None,
                      body_hash |-> body_hash,
                      state_root_hash |-> StateRootHash])

RECURSIVE SeqsUpTo(_, _)
SeqsUpTo(S, n) ==
    IF n = 0 THEN {<<>>}
    ELSE LET shorter == SeqsUpTo(S, n - 1)
         IN  shorter \cup {Append(q, x) : q \in shorter, x \in S}

\* Bodies of the target block: any deploy_hashes sequence (repeats included)
\* with or without a transfer.
BodyChoices ==
    {[deploy_hashes |-> ds, transfer_hashes |-> ts] :
        ds \in SeqsUpTo(Deploys, NDeploys), ts \in {<<>>, <<TransferDeploy>>}}

\* The metadata row of deploy d with execution results for the blocks K.
StoredMetadata(d, K) ==
    serialize_metadata([execution_results |-> [b \in K |-> ResultOf(d, b)]])

RowKinds == {"absent", "garbage", "present"}

\* One row of a sub-database by kind.
Row(kind, key, value) ==
    IF kind = "absent" THEN <<>>
    ELSE [k \in {key} |-> IF kind = "garbage" THEN Garbage
                          ELSE IF kind = "unreadable" THEN Unreadable
                          ELSE value]

Store(header_kind, body_kind, body, transfer_kind, deploys, md_kind, md_keys) ==
    [block_header |->
        Row(header_kind, TargetHash, StoredHeader(BodyHash))
            @@ Row("present", OtherHash, StoredHeader(OtherBodyHash)),
     block_body |->
        Row(body_kind, BodyHash, serialize_body(body))
            @@ Row("present", OtherBodyHash,
                   serialize_body([deploy_hashes |-> <<Max(Deploys)>>,
                                   transfer_hashes |-> <<>>])),
     deploy |-> [d \in deploys \cup {TransferDeploy} |-> <<"Deploy", d>>],
     transfer |-> Row(transfer_kind, TargetHash, <<"Transfers", TargetHash>>),
     deploy_metadata |->
        [d \in {x \in Deploys : md_kind[x] # "absent"} |->
            IF md_kind[d] = "garbage" THEN Garbage
            ELSE StoredMetadata(d, md_keys[d])],
     block_metadata |-> <<>>]

\* A destination path that is already taken.
OldDestination == [exists |-> TRUE, env |-> [n \in {"block_metadata"} |-> <<>>]]
NoDestination == [exists |-> FALSE, env |-> <<>>]

SliceStart == [pc |-> "start", block_hash |-> TargetHash,
               w |-> [txn |-> <<>>, writes |-> <<>>],
               block_header |-> None, block_body |-> None, i |-> 1,
               err |-> NoError, at |-> "none", ret |-> None]

SliceInit ==
    /\ \E header_kind \in RowKinds, body_kind \in RowKinds,
          body \in BodyChoices,
          transfer_kind \in {"absent", "present", "unreadable"},
          deploys \in {Deploys, Deploys \ {Min(Deploys)}},
          md_kind \in [Deploys -> RowKinds],
          md_keys \in [Deploys -> SUBSET {TargetHash, OtherHash}] :
          /\ body_kind # "present" => body = [deploy_hashes |-> <<>>,
                                              transfer_hashes |-> <<>>]
          /\ \A d \in Deploys : md_kind[d] # "present" => md_keys[d] = {}
          /\ source = Store(header_kind, body_kind, body, transfer_kind,
                            deploys, md_kind, md_keys)
    /\ destination \in {NoDestination, OldDestination}
    /\ slice = SliceStart
    /\ stats = [pc |-> "idle"]
    /\ weights = <<>>
    /\ signatures = [block_hash |-> 0, era_id |-> 0, proofs |-> <<>>]
    /\ signatures0 = signatures
    /\ strip = StripIdle
    /\ block_header = <<>>
    /\ block_metadata = <<>>
    /\ weak_finality_block_list = {}
    /\ no_finality_block_list = {}
    /\ indices = EmptyIndices
    /\ run = PurgeIdle
    /\ ReportIdle

----------------------------------------------------------------------------
\* The slice extraction, step by step.  An error return drops the
\* destination transaction: slice.w is kept as history only.

SliceFail(w, err) ==
    [slice EXCEPT !.pc = "failed", !.at = slice.pc, !.w = w, !.err = err]

\* An lmdb error as the Error the caller returns: Database(lmdb_error).
DatabaseError(e) == <<"Database", e[1]>>

\* create_output_db that opens the environment even when the path exists.
SliceCreateOverExisting ==
    /\ slice.pc = "start"
    /\ destination' = [exists |-> TRUE, env |-> [n \in OutputDbs |-> <<>>]]
    /\ slice' = [slice EXCEPT !.pc = "created"]
    /\ UNCHANGED <<source, stats, stripVars, purgeVars, reportVars>>

\* storage.rs:19-38, create_output_db
SliceCreate ==
    /\ slice.pc = "start"
    /\ IF destination.exists
       THEN /\ slice' = SliceFail(slice.w, <<"Output", "AlreadyExists">>)
            /\ destination' = destination
       ELSE /\ destination' = [exists |-> TRUE,
                               env |-> [n \in OutputDbs |-> <<>>]]
            /\ slice' = [slice EXCEPT !.pc = "created"]
    /\ UNCHANGED <<source, stats, stripVars, purgeVars, reportVars>>

\* storage.rs:45-57, transfer_block_info opens both transactions
SliceBegin ==
    /\ slice.pc = "created"
    /\ slice' = [slice EXCEPT !.pc = "header",
                              !.w = [txn |-> destination.env, writes |-> <<>>]]
    /\ UNCHANGED <<source, destination, stats, stripVars, purgeVars, reportVars>>

\* storage.rs:59-66
SliceHeader ==
    /\ slice.pc = "header"
    /\ LET t == transfer_to_new_db(source, slice.w, "block_header",
                                   slice.block_hash)
           h == deserialize_header(t.res.value)
       IN  slice' = IF ~ t.res.ok THEN SliceFail(t.w, DatabaseError(t.res.error))
                    ELSE IF ~ h.ok THEN SliceFail(t.w, h.error)
                    ELSE [slice EXCEPT !.pc = "body", !.w = t.w,
                                       !.block_header = Some(h.value)]
    /\ UNCHANGED <<source, destination, stats, stripVars, purgeVars, reportVars>>

\* storage.rs:68-75
SliceBody ==
    /\ slice.pc = "body"
    /\ LET t == transfer_to_new_db(source, slice.w, "block_body",
                                   slice.block_header.v.body_hash)
           b == deserialize_body(t.res.value)
       IN  slice' = IF ~ t.res.ok THEN SliceFail(t.w, DatabaseError(t.res.error))
                    ELSE IF ~ b.ok THEN SliceFail(t.w, b.error)
                    ELSE [slice EXCEPT !.pc = "transfer", !.w = t.w,
                                       !.block_body = Some(b.value)]
    /\ UNCHANGED <<source, destination, stats, stripVars, purgeVars, reportVars>>

\* SliceTransfer that returns every lmdb error of the lookup, NotFound too.
SliceTransferStrict ==
    /\ slice.pc = "transfer"
    /\ LET t == transfer_to_new_db(source, slice.w, "transfer",
                                   slice.block_hash)
       IN  slice' = IF t.res.ok
                    THEN [slice EXCEPT !.pc = "deploys", !.w = t.w, !.i = 1]
                    ELSE SliceFail(t.w, DatabaseError(t.res.error))
    /\ UNCHANGED <<source, destination, stats, stripVars, purgeVars, reportVars>>

\* storage.rs:77-86
SliceTransfer ==
    /\ slice.pc = "transfer"
    /\ LET t == transfer_to_new_db(source, slice.w, "transfer",
                                   slice.block_hash)
       IN  slice' = IF t.res.ok \/ t.res.error[1] = "NotFound"
                    THEN [slice EXCEPT !.pc = "deploys", !.w = t.w, !.i = 1]
                    ELSE SliceFail(t.w, DatabaseError(t.res.error))
    /\ UNCHANGED <<source, destination, stats, stripVars, purgeVars, reportVars>>

\* storage.rs:90-122, one iteration of the deploy loop
SliceDeploy ==
    /\ slice.pc = "deploys"
    /\ slice.i <= Len(slice.block_body.v.deploy_hashes)
    /\ LET t == transfer_deploy(source, slice.w, slice.block_hash,
                                slice.block_body.v.deploy_hashes[slice.i])
       IN  slice' = IF t.err # NoError
                    THEN SliceFail(t.w, IF t.err[1] = "Parsing" THEN t.err
                                        ELSE DatabaseError(t.err))
                    ELSE [slice EXCEPT !.w = t.w, !.i = slice.i + 1]
    /\ UNCHANGED <<source, destination, stats, stripVars, purgeVars, reportVars>>

\* SliceCommit that commits the destination before the source commit is
\* known to have succeeded.
SliceCommitDestinationFirst ==
    /\ slice.pc = "deploys"
    /\ slice.i > Len(slice.block_body.v.deploy_hashes)
    /\ \E source_committed \in BOOLEAN :
          /\ destination' = [destination EXCEPT !.env = slice.w.txn]
          /\ slice' = IF source_committed
                      THEN [slice EXCEPT !.pc = "done",
                               !.ret = Some(slice.block_header.v.state_root_hash)]
                      ELSE SliceFail(slice.w, <<"Database", "commit">>)
    /\ UNCHANGED <<source, stats, stripVars, purgeVars, reportVars>>

\* storage.rs:123-126: source_txn.commit()?, destination_txn.commit()?, Ok
SliceCommit ==
    /\ slice.pc = "deploys"
    /\ slice.i > Len(slice.block_body.v.deploy_hashes)
    /\ \E source_committed \in BOOLEAN, destination_committed \in BOOLEAN :
          IF source_committed /\ destination_committed
          THEN /\ destination' = [destination EXCEPT !.env = slice.w.txn]
               /\ slice' = [slice EXCEPT !.pc = "done",
                               !.ret = Some(slice.block_header.v.state_root_hash)]
          ELSE /\ destination' = destination
               /\ slice' = SliceFail(slice.w, <<"Database", "commit">>)
    /\ UNCHANGED <<source, stats, stripVars, purgeVars, reportVars>>

SliceNext ==
    \/ SliceCreate
    \/ SliceBegin
    \/ SliceHeader
    \/ SliceBody
    \/ SliceTransfer
    \/ SliceDeploy
    \/ SliceCommit

SpecSlice == SliceInit /\ [][SliceNext]_vars

----------------------------------------------------------------------------
\* Claims about slice extraction (checked under SpecSlice)

Range(q) == {q[n] : n \in 1 .. Len(q)}

\* The body of the target block as stored in the source.
SourceBody ==
    deserialize_body(source.block_body[
        deserialize_header(source.block_header[TargetHash]).value.body_hash]).value

\* C12: after a successful slice extraction of block B, every deploy_metadata
\* row of the destination belongs to a deploy hash of B's body, and its
\* execution_results map holds exactly the entry keyed by B's hash with the
\* source's result for that deploy in B; results stored for the deploy under
\* another block hash are not in the destination.
C12_MetadataProjectedToTarget ==
    slice.pc = "done" =>
        \A d \in DOMAIN destination.env.deploy_metadata :
            LET m == deserialize_metadata(destination.env.deploy_metadata[d])
                old == deserialize_metadata(source.deploy_metadata[d])
            IN  /\ d \in Range(SourceBody.deploy_hashes)
                /\ m.ok
                /\ DOMAIN m.value.execution_results = {TargetHash}
                /\ m.value.execution_results[TargetHash]
                      = old.value.execution_results[TargetHash]

\* C12 witness: the extraction succeeded for a deploy whose source metadata
\* holds results for the target block and for another block.
C12_Witness ==
    /\ slice.pc = "done"
    /\ \E d \in DOMAIN destination.env.deploy_metadata :
          DOMAIN deserialize_metadata(source.deploy_metadata[d])
                     .value.execution_results = {TargetHash, OtherHash}

\* C14: create_output_db fails with Output(AlreadyExists) exactly when the
\* destination path already exists, and then creates or modifies nothing;
\* otherwise it creates the directory and an environment with the five
\* sub-databases block_header, block_body, deploy, transfer and
\* deploy_metadata, all empty, and no block_metadata sub-database, so no
\* slice has a block_metadata sub-database.
C14_CreateOutputDb ==
    /\ [][slice.pc = "start" =>
            IF destination.exists
            THEN /\ slice'.pc = "failed"
                 /\ slice'.err = <<"Output", "AlreadyExists">>
                 /\ destination' = destination
            ELSE /\ slice'.pc = "created"
                 /\ destination'.exists
                 /\ DOMAIN destination'.env =
                       {"block_header", "block_body", "deploy", "transfer",
                        "deploy_metadata"}
                 /\ \A n \in DOMAIN destination'.env :
                       destination'.env[n] = <<>>]_vars
    /\ [](slice.pc = "done" => "block_metadata" \notin DOMAIN destination.env)

\* C14 witness: create_output_db found the path taken, failed and left what
\* was there.
C14_Witness ==
    /\ slice.pc = "failed"
    /\ slice.at = "start"
    /\ slice.err = <<"Output", "AlreadyExists">>
    /\ destination = OldDestination

\* C15: if transfer_block_info returns an error at any step (a missing
\* header gives Database(NotFound)), the destination RW transaction is never
\* committed: every destination sub-database is still empty afterwards.
C15_ErrorCommitsNothing ==
    (slice.pc = "failed" /\ slice.at # "start") =>
        /\ \A n \in DOMAIN destination.env : destination.env[n] = <<>>
        /\ (slice.at = "header" /\ TargetHash \notin DOMAIN source.block_header)
              => slice.err = <<"Database", "NotFound">>

\* C15 witness: the source commit failed after every row of the slice had
\* been written to the destination transaction.
C15_Witness ==
    /\ slice.pc = "failed"
    /\ slice.at = "deploys"
    /\ slice.err = <<"Database", "commit">>
    /\ Len(slice.w.writes) > 3

\* C16: slice extraction succeeds whether or not the source has a transfer
\* row for the target block hash: destination transfer[block_hash] exists
\* iff the source row exists, and then holds the same bytes; only a database
\* error other than NotFound on that lookup aborts the extraction.
C16_TransferRowOptional ==
    /\ slice.pc = "done" =>
          SameRow(destination.env.transfer, source.transfer, TargetHash)
    /\ (slice.pc = "failed" /\ slice.at = "transfer") =>
          /\ TargetHash \in DOMAIN source.transfer
          /\ source.transfer[TargetHash] = Unreadable
          /\ slice.err = <<"Database", "Other">>
    /\ slice.pc \in {"deploys", "done"} =>
          (TargetHash \in DOMAIN source.transfer =>
              source.transfer[TargetHash] # Unreadable)

\* C16 witness: an extraction succeeded although the source has no transfer
\* row for the target block.
C16_Witness ==
    /\ slice.pc = "done"
    /\ TargetHash \notin DOMAIN source.transfer
    /\ TargetHash \notin DOMAIN destination.env.transfer

\* C17: during one slice extraction every (sub-database, key) pair of the
\* destination is written at most once, for any deploy_hashes sequence the
\* source block body may hold.
C17_AtMostOneWritePerKey ==
    \A m, n \in DOMAIN slice.w.writes :
        m # n => slice.w.writes[m] # slice.w.writes[n]

\* C33: slice extraction never modifies the source store, and after a
\* successful extraction of block B the destination holds exactly one
\* header row, block_header[hash(B)], exactly one body row,
\* block_body[B.body_hash], and exactly the deploy rows deploy[d] for the d
\* of the body's deploy_hashes, each identical to the source row.
C33_MinimalIdenticalCopy ==
    /\ [][source' = source]_vars
    /\ [](slice.pc = "done" =>
            LET body_hash == deserialize_header(
                                 source.block_header[TargetHash]).value.body_hash
            IN  /\ DOMAIN destination.env.block_header = {TargetHash}
                /\ destination.env.block_header[TargetHash]
                       = source.block_header[TargetHash]
                /\ DOMAIN destination.env.block_body = {body_hash}
                /\ destination.env.block_body[body_hash]
                       = source.block_body[body_hash]
                /\ DOMAIN destination.env.deploy
                       = Range(SourceBody.deploy_hashes)
                /\ \A d \in DOMAIN destination.env.deploy :
                       destination.env.deploy[d] = source.deploy[d])

\* C33 witness: an extraction succeeded for a body that lists a deploy, from
\* a source that holds another header, another body and a deploy the body
\* does not list.
C33_Witness ==
    /\ slice.pc = "done"
    /\ SourceBody.deploy_hashes # <<>>
    /\ OtherHash \in DOMAIN source.block_header
    /\ OtherBodyHash \in DOMAIN source.block_body
    /\ \E d \in DOMAIN source.deploy :
          d \notin Range(SourceBody.deploy_hashes)

\* C34: after a successful slice extraction every deploy hash referenced by
\* the copied block body, in deploy_hashes and in transfer_hashes alike, has
\* its deploy record in the destination.
C34_EveryReferencedDeployCopied ==
    slice.pc = "done" =>
        \A d \in Range(SourceBody.deploy_hashes)
                  \cup Range(SourceBody.transfer_hashes) :
            /\ d \in DOMAIN destination.env.deploy
            /\ destination.env.deploy[d] = source.deploy[d]

(***************************************************************************)
(* Part 4: the progress tracker (common/progress.rs)                       *)
(*                                                                         *)
(* The log sink is a callback supplied by the caller; `logged` records the *)
(* values it was called with, in order, and `warned` counts the            *)
(* over-advance warnings.  usize arithmetic is taken as exact: the totals  *)
(* are row counts of a database, far below 2^64 / STEPS.                   *)
(***************************************************************************)
STEPS == 20
PROGRESS_MULTIPLIER == 100 \div STEPS

MaxTotal == 25
MaxStep == 3

\* ProgressTracker::new that accepts a total of zero.
new_accepts_zero(total_to_process) ==
    Ok([total_to_process |-> total_to_process,
        processed |-> 0,
        progress_factor |-> 1,
        logged |-> <<>>,
        warned |-> 0])

\* progress.rs:17-31
new(total_to_process) ==
    IF total_to_process = 0
    THEN Err(<<"Cannot initialize total to process with 0", 0>>)
    ELSE Ok([total_to_process |-> total_to_process,
             processed |-> 0,
             progress_factor |-> 1,
             logged |-> <<>>,
             warned |-> 0])

\* The while loop with a strict comparison: a boundary is crossed only when
\* the processed count is beyond it.
RECURSIVE advance_loop_strict(_)
advance_loop_strict(t) ==
    IF t.processed * STEPS > t.total_to_process * t.progress_factor
    THEN advance_loop_strict(
             [t EXCEPT !.logged = Append(@, t.progress_factor
                                             * PROGRESS_MULTIPLIER),
                       !.progress_factor = @ + 1])
    ELSE t

\* progress.rs:35-38, the while loop
RECURSIVE advance_loop(_)
advance_loop(t) ==
    IF t.processed * STEPS >= t.total_to_process * t.progress_factor
    THEN advance_loop(
             [t EXCEPT !.logged = Append(@, t.progress_factor
                                             * PROGRESS_MULTIPLIER),
                       !.progress_factor = @ + 1])
    ELSE t

\* progress.rs:33-46
advance_by(t, step) ==
    LET looped == advance_loop([t EXCEPT !.processed = @ + step])
    IN  IF looped.processed > looped.total_to_process
        THEN [looped EXCEPT !.warned = @ + 1]
        ELSE looped

\* A tracker as constructed, for any total; the construction may have failed.
ProgressInit ==
    /\ progress_tracker \in {new(total) : total \in 0 .. MaxTotal}
    /\ out_file = [exists |-> FALSE]
    /\ weights = <<>>
    /\ signatures = [block_hash |-> 0, era_id |-> 0, proofs |-> <<>>]
    /\ signatures0 = signatures
    /\ strip = StripIdle
    /\ block_header = <<>>
    /\ block_metadata = <<>>
    /\ weak_finality_block_list = {}
    /\ no_finality_block_list = {}
    /\ indices = EmptyIndices
    /\ run = PurgeIdle
    /\ StoreIdle

\* One call of advance_by, over-advance included; the number of calls after
\* the total was exceeded is capped.
ProgressAdvanceBy ==
    /\ progress_tracker.ok
    /\ progress_tracker.value.warned < MaxCalls
    /\ \E step \in 0 .. MaxStep :
          progress_tracker' = Ok(advance_by(progress_tracker.value, step))
    /\ UNCHANGED <<out_file, stripVars, purgeVars, storeVars>>

SpecProgress == ProgressInit /\ [][ProgressAdvanceBy]_vars

\* C21: a tracker is only ever built with total > 0 (construction with
\* total = 0 fails), and while the cumulative processed count p is at most
\* total the callbacks received so far are exactly 5*1, 5*2, ...,
\* 5*floor(20*p/total), in that order and each once.
C21_CallbacksAreTheCrossedBuckets ==
    /\ (~progress_tracker.ok) <=> progress_tracker = new(0)
    /\ progress_tracker.ok =>
         LET t == progress_tracker.value
         IN  /\ t.total_to_process > 0
             /\ t.processed <= t.total_to_process =>
                  t.logged = [n \in 1 .. ((20 * t.processed)
                                            \div t.total_to_process)
                                 |-> 5 * n]

\* C21 witness: total = 1 and advance_by(1) was called: 20 callbacks, the
\* last of them 100.
C21_Witness ==
    /\ progress_tracker.ok
    /\ progress_tracker.value.total_to_process = 1
    /\ progress_tracker.value.processed = 1
    /\ Len(progress_tracker.value.logged) = 20
    /\ progress_tracker.value.logged[20] = 100

\* C37: under any sequence of advance_by calls, over-advance beyond total
\* included, the tracker emits at most 20 callbacks and never a percentage
\* above 100.
C37_AtMostTwentyCallbacksUpTo100 ==
    progress_tracker.ok =>
        /\ Len(progress_tracker.value.logged) <= STEPS
        /\ \A n \in 1 .. Len(progress_tracker.value.logged) :
              progress_tracker.value.logged[n] <= 100

----------------------------------------------------------------------------
\* purge_signatures_for_blocks as one call (purge.rs:147-238)

\* purge.rs:179-235, the whole loop: the write transaction's view when the
\* loop ends or returns, and what each iteration logged.
RECURSIVE purge_loop(_, _, _, _, _, _, _)
purge_loop(txn, ew, db, idx, heights, full_purge, outcomes) ==
    IF heights = <<>>
    THEN [err |-> NoError, txn |-> txn, outcomes |-> outcomes]
    ELSE LET v == purge_visit(txn, ew, db, idx, Head(heights), full_purge)
         IN  IF v.err # NoError
             THEN [err |-> v.err, txn |-> v.txn,
                   outcomes |-> Append(outcomes, v.outcome)]
             ELSE purge_loop(v.txn, v.era_weights, db, idx, Tail(heights),
                             full_purge, Append(outcomes, v.outcome))

\* The call on the environment env: its result, block_metadata as the call
\* leaves it (the transaction is committed on Ok only), the transaction's
\* view at the return and the per-height outcomes.
purge_signatures_for_blocks(env, db, idx, heights_to_visit, full_purge) ==
    IF ~ new(Cardinality(heights_to_visit)).ok
    THEN [err |-> <<"EmptyBlockList", 0>>, env |-> env, txn |-> env,
          outcomes |-> <<>>]
    ELSE LET looped == purge_loop(env, EraWeightsDefault, db, idx,
                                  Ascending(heights_to_visit), full_purge, <<>>)
         IN  [err |-> looped.err,
              env |-> IF looped.err = NoError THEN looped.txn ELSE env,
              txn |-> looped.txn,
              outcomes |-> looped.outcomes]

C39_WeakPurgeIdempotent ==
    WeakCallOk =>
        LET second == purge_signatures_for_blocks(
                          block_metadata, block_header, indices,
                          weak_finality_block_list, FALSE)
        IN  /\ second.err = NoError
            /\ second.env = block_metadata
            /\ Len(second.outcomes) = Len(run.log)
            /\ \A n \in 1 .. Len(run.log) :
                  second.outcomes[n] = run.log[n].outcome

\* C39 witness: a weak purge returned Ok after it stripped a record.
C39_Witness ==
    /\ WeakCallOk
    /\ block_metadata # run.meta0
    /\ \E n \in 1 .. Len(run.log) :
          run.log[n].outcome \in {"stripped", "stripped_inaccurate"}

----------------------------------------------------------------------------
\* execution_results_summary/summary.rs

CHUNK_SIZE_BYTES == 20
LAST_ELEM_INDEX_IN_CHUNK == CHUNK_SIZE_BYTES - 1

chunk_count_after_partition(data_size) ==
    (data_size + LAST_ELEM_INDEX_IN_CHUNK) \div CHUNK_SIZE_BYTES

RECURSIVE SumSeq(_)
SumSeq(q) == IF q = <<>> THEN 0 ELSE Head(q) + SumSeq(Tail(q))

\* bincode::serialized_size(&Vec<ExecutionResult>): a u64 length, then per
\* element a u32 variant tag and the content.
bincode_serialized_size(execution_results) ==
    8 + SumSeq([n \in 1 .. Len(execution_results) |-> 4 + execution_results[n]])

\* bytesrepr serialized_length of Vec<ExecutionResult>: a u32 length, then
\* per element a u8 variant tag and the content.
serialized_length(execution_results) ==
    4 + SumSeq([n \in 1 .. Len(execution_results) |-> 1 + execution_results[n]])

ExecutionResultsStatsDefault == [execution_results_size |-> <<>>,
                                 chunk_count |-> <<>>]

\* The get_mut / insert pair of feed on one histogram.
count_sample(map, key) ==
    IF key \in DOMAIN map THEN [map EXCEPT ![key] = @ + 1] ELSE Put(map, key, 1)

\* feed that counts a sample only the first time its key is seen.
feed_first_only(st, execution_results) ==
    [execution_results_size |->
        IF bincode_serialized_size(execution_results)
              \in DOMAIN st.execution_results_size
        THEN st.execution_results_size
        ELSE Put(st.execution_results_size,
                 bincode_serialized_size(execution_results), 1),
     chunk_count |->
        count_sample(st.chunk_count,
            chunk_count_after_partition(serialized_length(execution_results)))]

\* ExecutionResultsStats::feed
feed(st, execution_results) ==
    [execution_results_size |->
        count_sample(st.execution_results_size,
                     bincode_serialized_size(execution_results)),
     chunk_count |->
        count_sample(st.chunk_count,
            chunk_count_after_partition(serialized_length(execution_results)))]

\* summarize_map, lines 27-37: the loop over the map in key order.
RECURSIVE summarize_loop(_, _, _, _, _)
summarize_loop(acc, keys, map, elem_count, median_pos) ==
    IF keys = <<>> THEN acc
    ELSE
    LET key == Head(keys)
        count == map[key]
        current_idx == acc.current_idx + count
    IN  summarize_loop(
            [median |-> IF acc.current_idx <= median_pos
                           /\ acc.current_idx + count > median_pos
                        THEN key ELSE acc.median,
             sum |-> acc.sum + key * count,
             current_idx |-> current_idx,
             max |-> IF current_idx = elem_count THEN key ELSE acc.max],
            Tail(keys), map, elem_count, median_pos)

\* summarize_map with the median position taken at (elem_count - 1) / 2.
summarize_map_lower_median(map) ==
    LET keys == Ascending(DOMAIN map)
        elem_count == SumSeq([n \in 1 .. Len(keys) |-> map[keys[n]]])
        median_pos == IF elem_count = 0 THEN 0 ELSE (elem_count - 1) \div 2
        done == summarize_loop([median |-> 0, sum |-> 0, current_idx |-> 0,
                                max |-> 0],
                               keys, map, elem_count, median_pos)
    IN  [average |-> IF elem_count > 0
                     THEN [sum |-> done.sum, elem_count |-> elem_count]
                     ELSE [sum |-> 0, elem_count |-> 1],
         median |-> done.median, max |-> done.max]

\* summarize_map: the average is the exact quotient sum / elem_count, kept
\* as the pair of its terms (0 / 1 for the empty map).
summarize_map(map) ==
    LET keys == Ascending(DOMAIN map)
        elem_count == SumSeq([n \in 1 .. Len(keys) |-> map[keys[n]]])
        median_pos == elem_count \div 2
        done == summarize_loop([median |-> 0, sum |-> 0, current_idx |-> 0,
                                max |-> 0],
                               keys, map, elem_count, median_pos)
    IN  [average |-> IF elem_count > 0
                     THEN [sum |-> done.sum, elem_count |-> elem_count]
                     ELSE [sum |-> 0, elem_count |-> 1],
         median |-> done.median, max |-> done.max]

----------------------------------------------------------------------------
\* execution_results_summary/read_db.rs

\* The loop over the deploy hashes taking, from each deploy's metadata, the
\* result stored under the least block hash, whichever block is scanned.
RECURSIVE collect_results_any_block(_, _, _, _)
collect_results_any_block(txn, block_hash, deploy_hashes, execution_results) ==
    IF deploy_hashes = <<>> THEN Ok(execution_results)
    ELSE
    LET deploy_hash == Head(deploy_hashes)
        metadata_raw == read_from_db(txn, "deploy_metadata", deploy_hash)
        metadata == deserialize_metadata(metadata_raw.value)
    IN  IF ~ metadata_raw.ok THEN Err(DatabaseError(metadata_raw.error))
        ELSE IF ~ metadata.ok THEN Err(<<"Parsing", block_hash>>)
        ELSE collect_results_any_block(txn, block_hash, Tail(deploy_hashes),
                IF DOMAIN metadata.value.execution_results # {}
                THEN Append(execution_results,
                            metadata.value.execution_results[
                                Min(DOMAIN metadata.value.execution_results)])
                ELSE execution_results)

\* read_db.rs:86-101, the loop over the body's deploy hashes: the results
\* collected for block_hash, or the error the loop returned with.
RECURSIVE collect_results(_, _, _, _)
collect_results(txn, block_hash, deploy_hashes, execution_results) ==
    IF deploy_hashes = <<>> THEN Ok(execution_results)
    ELSE
    LET deploy_hash == Head(deploy_hashes)
        metadata_raw == read_from_db(txn, "deploy_metadata", deploy_hash)
        metadata == deserialize_metadata(metadata_raw.value)
    IN  IF ~ metadata_raw.ok THEN Err(DatabaseError(metadata_raw.error))
        ELSE IF ~ metadata.ok THEN Err(<<"Parsing", block_hash>>)
        ELSE collect_results(txn, block_hash, Tail(deploy_hashes),
                IF block_hash \in DOMAIN metadata.value.execution_results
                THEN Append(execution_results,
                            metadata.value.execution_results[block_hash])
                ELSE execution_results)

\* read_db.rs:63-101, one header row: the sample of its block.
block_sample(txn, idx, block_hash, raw_val) ==
    IF block_hash < 0 THEN Err(<<"InvalidKey", idx>>)
    ELSE
    LET header == deserialize_header(raw_val)
        block_body_raw == read_from_db(txn, "block_body", header.value.body_hash)
        block_body_ == deserialize_body(block_body_raw.value)
    IN  IF ~ header.ok THEN Err(<<"Parsing", block_hash>>)
        ELSE IF ~ block_body_raw.ok
        THEN Err(DatabaseError(block_body_raw.error))
        ELSE IF ~ block_body_.ok THEN Err(<<"Parsing", block_hash>>)
        ELSE collect_results(txn, block_hash, block_body_.value.deploy_hashes,
                             <<>>)

\* get_execution_results_stats: the scan of block_header in key order.
RECURSIVE scan_headers(_, _, _, _)
scan_headers(txn, st, idx, rows) ==
    IF rows = <<>> THEN Ok(st)
    ELSE LET sample == block_sample(txn, idx, Head(rows),
                                    txn.block_header[Head(rows)])
         IN  IF ~ sample.ok THEN sample
             ELSE scan_headers(txn, feed(st, sample.value), idx + 1, Tail(rows))

get_execution_results_stats(txn) ==
    scan_headers(txn, ExecutionResultsStatsDefault, 0,
                 Ascending(DOMAIN txn.block_header))

\* C13: for any source store on which slice extraction of block B succeeds,
\* the summarizer scan over the destination store also succeeds, and its
\* histograms hold exactly one sample, computed from the same sequence of
\* execution results the summarizer derives for B in the source.
C13_SummaryOfSliceMatchesSource ==
    slice.pc = "done" =>
        LET replay == get_execution_results_stats(destination.env)
            sample == block_sample(source, 0, TargetHash,
                                   source.block_header[TargetHash])
        IN  /\ replay.ok
            /\ sample.ok
            /\ replay.value = feed(ExecutionResultsStatsDefault, sample.value)

----------------------------------------------------------------------------
\* The summarizer scan, one header row per step.

NHeaders == 3

ScannedBlocks == 1 .. NHeaders
ScannedBodyHash(b) == 40 + b

\* What a deploy's metadata row holds: nothing readable, or results for
\* every scanned block, for the first one only, or for none.
MetadataChoices == {"absent", "garbage", "all", "first", "none"}

\* A store of NHeaders blocks; block b holds the first len[b] deploys.  The
\* last block's header and body rows may be damaged, and a row whose key is
\* not a block hash may precede the headers.
ScannedStore(len, md_kind, header_kind, body_kind, invalid_key) ==
    [block_header |->
        [b \in ScannedBlocks \ {NHeaders} |-> StoredHeader(ScannedBodyHash(b))]
            @@ Row(header_kind, NHeaders, StoredHeader(ScannedBodyHash(NHeaders)))
            @@ (IF invalid_key THEN Row("garbage", 0 - 1, Garbage) ELSE <<>>),
     block_body |->
        [h \in {ScannedBodyHash(b) : b \in ScannedBlocks \ {NHeaders}} |->
            LET b == CHOOSE x \in ScannedBlocks : ScannedBodyHash(x) = h
            IN  serialize_body([deploy_hashes |->
                                    SubSeq(Ascending(Deploys), 1, len[b]),
                                transfer_hashes |-> <<>>])]
            @@ Row(body_kind, ScannedBodyHash(NHeaders),
                   serialize_body([deploy_hashes |->
                                       SubSeq(Ascending(Deploys), 1, len[NHeaders]),
                                   transfer_hashes |-> <<>>])),
     deploy_metadata |->
        [d \in {x \in Deploys : md_kind[x] # "absent"} |->
            IF md_kind[d] = "garbage" THEN Garbage
            ELSE StoredMetadata(d, IF md_kind[d] = "all" THEN ScannedBlocks
                                   ELSE IF md_kind[d] = "first" THEN {1}
                                   ELSE {})]]

\* The store scanned and the locals of the scan, entered at position pc.
SummaryStart(pc) ==
    /\ \E len \in [ScannedBlocks -> 0 .. NDeploys],
          md_kind \in [Deploys -> MetadataChoices],
          header_kind \in {"present", "garbage"},
          body_kind \in RowKinds,
          invalid_key \in BOOLEAN :
          /\ (header_kind # "present" \/ invalid_key) => body_kind = "present"
          /\ source = ScannedStore(len, md_kind, header_kind, body_kind,
                                   invalid_key)
    /\ stats = [pc |-> pc, rows |-> Ascending(DOMAIN source.block_header),
                idx |-> 0, stats |-> ExecutionResultsStatsDefault,
                err |-> NoError, summary |-> None]
    /\ destination = NoDestination
    /\ slice = [pc |-> "idle"]
    /\ weights = <<>>
    /\ signatures = [block_hash |-> 0, era_id |-> 0, proofs |-> <<>>]
    /\ signatures0 = signatures
    /\ strip = StripIdle
    /\ block_header = <<>>
    /\ block_metadata = <<>>
    /\ weak_finality_block_list = {}
    /\ no_finality_block_list = {}
    /\ indices = EmptyIndices
    /\ run = PurgeIdle

\* The scan entered without an output path: no progress is logged.
SummaryInit ==
    /\ SummaryStart("scan")
    /\ ReportIdle

\* read_db.rs:63-108, one iteration of the cursor loop
SummaryScanRow ==
    /\ stats.pc = "scan"
    /\ stats.rows # <<>>
    /\ LET block_hash == Head(stats.rows)
           sample == block_sample(source, stats.idx, block_hash,
                                  source.block_header[block_hash])
       IN  /\ stats' = IF sample.ok
                    THEN [stats EXCEPT !.stats = feed(@, sample.value),
                                       !.idx = @ + 1,
                                       !.rows = Tail(@)]
                    ELSE [stats EXCEPT !.pc = "failed", !.err = sample.error]
           /\ progress_tracker' =
                  IF sample.ok /\ progress_tracker.ok
                  THEN Ok(advance_by(progress_tracker.value, 1))
                  ELSE progress_tracker
    /\ UNCHANGED <<source, destination, slice, out_file, stripVars, purgeVars>>

\* read_db.rs:110 and summary.rs:109-119: Ok(stats) and its summary
SummaryFinish ==
    /\ stats.pc = "scan"
    /\ stats.rows = <<>>
    /\ stats' = [stats EXCEPT
                   !.pc = "done",
                   !.summary = Some(
                       [execution_results_size |->
                            summarize_map(stats.stats.execution_results_size),
                        chunks_statistics |->
                            summarize_map(stats.stats.chunk_count)])]
    /\ UNCHANGED <<source, destination, slice, stripVars, purgeVars, reportVars>>

SummaryNext ==
    \/ SummaryScanRow
    \/ SummaryFinish

SpecSummary == SummaryInit /\ [][SummaryNext]_vars

\* The sum of the counts of a histogram.
HistogramTotal(map) ==
    SumSeq([n \in 1 .. Cardinality(DOMAIN map) |->
               map[Ascending(DOMAIN map)[n]]])

StatisticsInRange(st) ==
    /\ st.max >= st.median
    /\ st.average.sum >= 0
    /\ st.average.sum <= st.max * st.average.elem_count

\* C20: for every sequence of blocks scanned by the summarizer, each of the
\* two histograms has a sum of counts equal to the number of blocks scanned
\* (one feed per header row), and each summarized CollectionStatistics
\* satisfies max >= median and 0 <= average <= max.
C20_HistogramsCountBlocks ==
    /\ stats.pc # "idle" =>
          /\ HistogramTotal(stats.stats.execution_results_size) = stats.idx
          /\ HistogramTotal(stats.stats.chunk_count) = stats.idx
          /\ StatisticsInRange(summarize_map(stats.stats.execution_results_size))
          /\ StatisticsInRange(summarize_map(stats.stats.chunk_count))
    /\ stats.pc = "done" =>
          /\ stats.idx = Cardinality(DOMAIN source.block_header)
          /\ StatisticsInRange(stats.summary.v.execution_results_size)
          /\ StatisticsInRange(stats.summary.v.chunks_statistics)

\* C20 witness: a scan finished over blocks of which two gave samples of
\* the same size and one a sample of another size.
C20_Witness ==
    /\ stats.pc = "done"
    /\ stats.idx = NHeaders
    /\ Cardinality(DOMAIN stats.stats.execution_results_size) > 1
    /\ \E k \in DOMAIN stats.stats.execution_results_size :
          stats.stats.execution_results_size[k] > 1
    /\ stats.summary.v.execution_results_size.max
          > stats.summary.v.execution_results_size.median

\* The deploy hashes of the body of block b and the execution results the
\* store holds for a deploy, as the rows of the scanned store spell them.
BodyDeploysOf(b) ==
    deserialize_body(
        source.block_body[
            deserialize_header(source.block_header[b]).value.body_hash]
    ).value.deploy_hashes

ResultsOfDeploy(d) ==
    deserialize_metadata(source.deploy_metadata[d]).value.execution_results

\* The execution results stored under b's own hash, in deploy_hashes order.
ExpectedSample(b) ==
    LET with == SelectSeq(BodyDeploysOf(b),
                          LAMBDA d : b \in DOMAIN ResultsOfDeploy(d))
    IN  [n \in 1 .. Len(with) |-> ResultsOfDeploy(with[n])[b]]

\* C35: the summarizer feeds exactly one sample per header row, and the
\* sample of a block is the sequence, in the body's deploy_hashes order, of
\* the execution results stored under that block's own hash in each
\* deploy's metadata: a deploy without a result for the block adds nothing
\* and a result stored under another block hash is never counted.
C35_SampleIsOwnResultsInOrder ==
    /\ [][(stats.pc = "scan" /\ stats.rows # <<>> /\ stats'.pc = "scan") =>
            /\ stats'.rows = Tail(stats.rows)
            /\ stats'.idx = stats.idx + 1
            /\ stats'.stats = feed(stats.stats,
                                   ExpectedSample(Head(stats.rows)))]_vars
    /\ [](stats.pc = "done" =>
            stats.idx = Cardinality(DOMAIN source.block_header))

\* C35 witness: a scan finished over a store in which some block lists a
\* deploy with a result for it and a deploy whose only results are stored
\* under another block hash.
C35_Witness ==
    /\ stats.pc = "done"
    /\ \E b \in DOMAIN source.block_header :
          /\ ExpectedSample(b) # <<>>
          /\ \E d \in Range(BodyDeploysOf(b)) :
                /\ DOMAIN ResultsOfDeploy(d) # {}
                /\ b \notin DOMAIN ResultsOfDeploy(d)

\* The number of samples of a histogram whose key is at most k.
CumulativeCount(map, k) ==
    HistogramTotal(Restrict(map, {j \in DOMAIN map : j <= k}))

\* What C36 says of the statistics st of the histogram map.
MedianAndMaxOf(map, st) ==
    IF DOMAIN map = {}
    THEN st.average.sum = 0 /\ st.median = 0 /\ st.max = 0
    ELSE /\ \A k \in DOMAIN map : map[k] >= 1
         /\ HistogramTotal(map) >= 1
         /\ st.median = Min({k \in DOMAIN map :
                               CumulativeCount(map, k)
                                   > HistogramTotal(map) \div 2})
         /\ st.max = Max(DOMAIN map)

\* C36: for every histogram built by feed (all counts >= 1, total n >= 1)
\* summarize_map returns as median the smallest key whose cumulative count
\* strictly exceeds floor(n / 2) and as max the largest key; for the empty
\* histogram it returns average 0, median 0 and max 0.
C36_MedianIsUpperMiddleKey ==
    /\ stats.pc # "idle" =>
          /\ MedianAndMaxOf(stats.stats.execution_results_size,
                            summarize_map(stats.stats.execution_results_size))
          /\ MedianAndMaxOf(stats.stats.chunk_count,
                            summarize_map(stats.stats.chunk_count))
    /\ stats.pc = "done" =>
          /\ MedianAndMaxOf(stats.stats.execution_results_size,
                            stats.summary.v.execution_results_size)
          /\ MedianAndMaxOf(stats.stats.chunk_count,
                            stats.summary.v.chunks_statistics)

\* C36 witness: the summary of a finished scan whose size histogram holds
\* two samples under its smallest key, the median, and one under a larger
\* key, the max.
C36_Witness ==
    /\ stats.pc = "done"
    /\ \E k \in DOMAIN stats.stats.execution_results_size :
          /\ stats.stats.execution_results_size[k] = 2
          /\ k = Min(DOMAIN stats.stats.execution_results_size)
          /\ stats.summary.v.execution_results_size.median = k
          /\ stats.summary.v.execution_results_size.max > k

----------------------------------------------------------------------------
\* The index build on its own: header databases with repeated heights,
\* switch blocks of several protocol versions, unparsable rows and rows
\* whose key is not a block hash.

NRows == 3

IndexedHeader(height, is_switch, era_id, version) ==
    [height |-> height, era_id |-> era_id, protocol_version |-> version,
     is_switch_block |-> is_switch,
     next_era_validator_weights |->
        IF is_switch THEN Some(EqualWeights) ELSE None,
     body_hash |-> 0, state_root_hash |-> 0]

IndexRows ==
    {Garbage} \cup
    {serialize_header(IndexedHeader(h, sw, e, v)) :
        h \in {1, 2}, sw \in BOOLEAN, e \in {1, 2}, v \in {1, 2}}

IndexInit ==
    /\ \E rows \in [1 .. NRows -> IndexRows], invalid_key \in BOOLEAN :
          block_header =
              rows @@ (IF invalid_key
                       THEN Row("present", 0 - 1,
                                serialize_header(IndexedHeader(1, FALSE, 1, 1)))
                       ELSE <<>>)
    /\ weak_finality_block_list \in SUBSET {1, 2}
    /\ no_finality_block_list = {}
    /\ block_metadata = <<>>
    /\ indices = EmptyIndices
    /\ run = RunStart(block_metadata)
    /\ weights = <<>>
    /\ signatures = [block_hash |-> 0, era_id |-> 0, proofs |-> <<>>]
    /\ signatures0 = signatures
    /\ strip = StripIdle
    /\ StoreIdle
    /\ ReportIdle

SpecIndex == IndexInit /\ [][InitializeIndices]_vars

\* The header rows under a valid key that parse.
ParsedRows ==
    {k \in DOMAIN block_header :
        k >= 0 /\ deserialize_header(block_header[k]).ok}

AllRowsParse == \A k \in DOMAIN block_header : k < 0 \/ k \in ParsedRows

\* Two distinct header rows carry the requested height h.
DuplicateAt(h) ==
    /\ h \in weak_finality_block_list \cup no_finality_block_list
    /\ \E k1, k2 \in ParsedRows :
          /\ k1 # k2
          /\ deserialize_header(block_header[k1]).value.height = h
          /\ deserialize_header(block_header[k2]).value.height = h

\* C18 (as claimed): initialize_indices fails with DuplicateBlock(h) if and
\* only if two distinct header rows carry the same height h and h is one of
\* the requested heights.
C18_DuplicateBlockIff ==
    run.pc # "start" =>
        \A h \in {1, 2} :
            (run.pc = "failed" /\ run.err = <<"DuplicateBlock", h>>)
                <=> DuplicateAt(h)

\* C18 (amended): initialize_indices fails with DuplicateBlock(h) only if two
\* distinct header rows carry the same height h and h is one of the
\* requested heights; when such rows exist the build fails, with
\* DuplicateBlock of one such height if every header row parses and with
\* DuplicateBlock or HeaderParsing otherwise; when every row parses and no
\* requested height is repeated the build succeeds, so duplicate heights
\* outside the requested set do not fail it.
C18_DuplicateBlockOnlyIfAndFatal ==
    run.pc # "start" =>
        /\ \A h \in {1, 2} :
              (run.pc = "failed" /\ run.err = <<"DuplicateBlock", h>>)
                  => DuplicateAt(h)
        /\ (\E h \in {1, 2} : DuplicateAt(h)) =>
              /\ run.pc = "failed"
              /\ run.err[1] \in {"DuplicateBlock", "HeaderParsing"}
              /\ AllRowsParse => run.err[1] = "DuplicateBlock"
        /\ (AllRowsParse /\ ~ \E h \in {1, 2} : DuplicateAt(h)) =>
              run.pc = "weak"

\* C18 witness: the build failed with DuplicateBlock over rows that all
\* parse, two of them at one requested height and one at another.
C18_Witness ==
    /\ run.pc = "failed"
    /\ run.err = <<"DuplicateBlock", 2>>
    /\ weak_finality_block_list = {1, 2}
    /\ AllRowsParse
    /\ \E k \in ParsedRows :
          deserialize_header(block_header[k]).value.height = 1

----------------------------------------------------------------------------
\* EraWeights on its own: sequences of refresh_weights_for_era calls on one
\* cache.  The header database may have changed since the indices were
\* built: a switch block row may have lost its weights or become unparsable.


RefreshInit ==
    /\ \E indexed \in [SwitchEras -> {"absent", "equal", "progressive"}],
          now \in [SwitchEras -> SwitchKinds \cup {"garbage"}] :
          /\ \A e \in SwitchEras :
                now[e] \in {indexed[e]} \cup
                    (IF indexed[e] = "absent" THEN {}
                     ELSE {"no_weights", "garbage", "absent"})
          /\ indices =
                initialize_indices(HeaderDb([i \in Blocks |-> 1], indexed),
                                   {}).value
          /\ block_header =
                [k \in DOMAIN HeaderDb([i \in Blocks |-> 1], now) |->
                    IF \E e \in SwitchEras :
                          k = SwitchHash(e) /\ now[e] = "garbage"
                    THEN Garbage
                    ELSE HeaderDb([i \in Blocks |-> 1], now)[k]]
    /\ run = [pc |-> "refresh", era_weights |-> EraWeightsDefault,
              calls |-> 0, refreshed |-> {},
              last |-> [era_id |-> 0, before |-> EraWeightsDefault,
                        held |-> FALSE, res |-> Ok(FALSE)]]
    /\ block_metadata = <<>>
    /\ weak_finality_block_list = {}
    /\ no_finality_block_list = {}
    /\ weights = <<>>
    /\ signatures = [block_hash |-> 0, era_id |-> 0, proofs |-> <<>>]
    /\ signatures0 = signatures
    /\ strip = StripIdle
    /\ StoreIdle
    /\ ReportIdle

\* One call of refresh_weights_for_era(era_id) on the cache.  run.last
\* records the call: the cache before it, whether that cache held era_id
\* from an earlier call that returned Ok, and the result; run.refreshed is
\* the set of eras for which a call has returned Ok.
RefreshCall ==
    /\ run.pc = "refresh"
    /\ run.calls < MaxCalls
    /\ \E era_id \in Eras \cup {Max(Eras) + 1} :
          LET r == refresh_weights_for_era(run.era_weights, block_header,
                                           indices, era_id)
          IN  run' = [run EXCEPT
                        !.era_weights = r.era_weights,
                        !.calls = @ + 1,
                        !.refreshed = IF r.res.ok THEN @ \cup {era_id} ELSE @,
                        !.last = [era_id |-> era_id,
                                  before |-> run.era_weights,
                                  held |-> /\ run.era_weights.era_id = era_id
                                           /\ era_id \in run.refreshed,
                                  res |-> r.res]]
    /\ UNCHANGED <<block_header, block_metadata, weak_finality_block_list,
                   no_finality_block_list, indices>>
    /\ UNCHANGED <<stripVars, storeVars, reportVars>>

SpecRefresh == RefreshInit /\ [][RefreshCall]_vars

\* The switch block indexed for era e can be read and parses.
SwitchReadable(e) ==
    /\ e \in DOMAIN indices.switch_blocks
    /\ indices.switch_blocks[e] \in DOMAIN block_header
    /\ deserialize_header(block_header[indices.switch_blocks[e]]).ok

\* C19: refresh_weights_for_era(e), called when the cache does not hold e
\* from an earlier successful refresh, fails with MissingEraWeights(e)
\* whenever e is not a key of switch_blocks or the indexed switch block
\* carries no next_era_validator_weights; it never returns Ok in those
\* cases.
C19_MissingWeightsAlwaysFail ==
    (run.pc = "refresh" /\ run.calls > 0) =>
        LET e == run.last.era_id
        IN  (/\ ~ run.last.held
             /\ \/ e \notin DOMAIN indices.switch_blocks
                \/ SwitchReadable(e) /\ ~ AdvertisedFor(e).some)
            => /\ ~ run.last.res.ok
               /\ run.last.res.error = <<"MissingEraWeights", e>>

\* C28: after any sequence of refresh_weights_for_era calls, a call for era
\* e that returned Ok leaves the cache holding e together with exactly the
\* next_era_validator_weights of the switch block indexed at
\* switch_blocks[e], and its result is true iff the height of that switch
\* block is in switch_blocks_before_upgrade.
C28_RefreshLoadsAdvertisedWeights ==
    (run.pc = "refresh" /\ run.calls > 0 /\ run.last.res.ok) =>
        LET e == run.last.era_id
        IN  /\ run.era_weights.era_id = e
            /\ e \in DOMAIN indices.switch_blocks
            /\ SwitchReadable(e)
            /\ AdvertisedFor(e).some
            /\ run.era_weights.weights = AdvertisedFor(e).v
            /\ run.last.res.value
                  = (deserialize_header(
                         block_header[indices.switch_blocks[e]]).value.height
                     \in indices.switch_blocks_before_upgrade)

\* The parsed header of the row under key k.
HeaderOf(k) == deserialize_header(block_header[k]).value

\* C29: after a successful index build the keys of heights are exactly the
\* requested heights for which a header row exists, each mapped to the key
\* (block hash) and the header of a row of that height; a header at a height
\* that was not requested is not indexed.
C29_HeightsAreRequestedRows ==
    run.pc = "weak" =>
        /\ DOMAIN indices.heights =
              {h \in weak_finality_block_list \cup no_finality_block_list :
                  \E k \in ParsedRows : HeaderOf(k).height = h}
        /\ \A h \in DOMAIN indices.heights :
              /\ indices.heights[h].hash \in ParsedRows
              /\ indices.heights[h].header = HeaderOf(indices.heights[h].hash)
              /\ indices.heights[h].header.height = h

\* C29 witness: a build succeeded and indexed a requested height, while the
\* database also holds headers at a height that was not requested and a
\* header of the requested height under a key that is no block hash.
C29_Witness ==
    /\ run.pc = "weak"
    /\ indices.heights # <<>>
    /\ \E k \in ParsedRows : HeaderOf(k).height \notin weak_finality_block_list
    /\ \E k \in DOMAIN block_header :
          /\ k < 0
          /\ HeaderOf(k).height \in DOMAIN indices.heights

\* The switch block rows of era e.
SwitchRows(e) ==
    {k \in ParsedRows : HeaderOf(k).is_switch_block /\ HeaderOf(k).era_id = e}

\* C30 (as claimed): after a successful index build, every switch block
\* header of era e stored under hash k has switch_blocks[e+1] = k, and every
\* entry of switch_blocks is the hash of a switch block.
C30_EverySwitchBlockIndexed ==
    run.pc = "weak" =>
        /\ \A k \in ParsedRows :
              HeaderOf(k).is_switch_block =>
                  /\ HeaderOf(k).era_id + 1 \in DOMAIN indices.switch_blocks
                  /\ indices.switch_blocks[HeaderOf(k).era_id + 1] = k
        /\ \A e \in DOMAIN indices.switch_blocks :
              /\ indices.switch_blocks[e] \in ParsedRows
              /\ HeaderOf(indices.switch_blocks[e]).is_switch_block

\* C30 (amended): after a successful index build, switch_blocks has a key
\* e+1 exactly for the eras e that have a switch block header, and
\* switch_blocks[e+1] is the hash of the switch block of era e met last by
\* the key-ordered scan (the greatest hash): the only one when era e has a
\* single switch block.  No non-switch block appears in switch_blocks.
C30_LastSwitchBlockOfEraIndexed ==
    run.pc = "weak" =>
        /\ DOMAIN indices.switch_blocks =
              {HeaderOf(k).era_id + 1 :
                  k \in {r \in ParsedRows : HeaderOf(r).is_switch_block}}
        /\ \A e \in DOMAIN indices.switch_blocks :
              /\ indices.switch_blocks[e] \in SwitchRows(e - 1)
              /\ \A k \in SwitchRows(e - 1) : k <= indices.switch_blocks[e]

\* C30 witness: a build succeeded over a database with two switch blocks of
\* one era and a block that is no switch block.
C30_Witness ==
    /\ run.pc = "weak"
    /\ \E e \in DOMAIN indices.switch_blocks :
          Cardinality(SwitchRows(e - 1)) = 2
    /\ \E k \in ParsedRows : ~ HeaderOf(k).is_switch_block

\* The heights of the switch block headers of protocol version v.
SwitchHeights(v) ==
    {HeaderOf(k).height :
        k \in {r \in ParsedRows : /\ HeaderOf(r).is_switch_block
                                  /\ HeaderOf(r).protocol_version = v}}

\* C31: after a successful index build, switch_blocks_before_upgrade is
\* exactly the set of the maximum switch block heights of the protocol
\* versions observed among the scanned headers, the highest observed version
\* excepted: the last switch block of the highest version is never in the
\* set and the last switch block of every earlier version always is.
C31_LastSwitchBlocksBeforeUpgrade ==
    run.pc = "weak" =>
        LET observed == {HeaderOf(k).protocol_version : k \in ParsedRows}
            earlier == {v \in observed :
                           v # Max(observed) /\ SwitchHeights(v) # {}}
        IN  indices.switch_blocks_before_upgrade
                = {Max(SwitchHeights(v)) : v \in earlier}

\* C40: a refresh_weights_for_era call that fails leaves the EraWeights
\* cache unchanged: era id, weights and era_after_upgrade flag after the
\* call are those before it, so a following request for the cached era
\* returns the flag it would have returned before the failed call.
C40_FailedRefreshLeavesCache ==
    (run.pc = "refresh" /\ run.calls > 0 /\ ~ run.last.res.ok) =>
        /\ run.era_weights = run.last.before
        /\ refresh_weights_for_era(run.era_weights, block_header, indices,
                                   run.era_weights.era_id).res
              = Ok(run.last.before.era_after_upgrade)

(***************************************************************************)
(* Part 4, continued: execution_results_summary with an output path        *)
(* (execution_results_summary/read_db.rs:120-144).                         *)
(*                                                                         *)
(* A file is a sequence of characters.  out_file is the file at the output *)
(* path, with the `overwrite` argument and the file as the call found it.  *)
(***************************************************************************)
MaxOldLen == 40

RECURSIVE Digits(_)
Digits(n) ==
    IF n < 10
    THEN <<<<"0", "1", "2", "3", "4", "5", "6", "7", "8", "9">>[n + 1]>>
    ELSE Digits(n \div 10) \o Digits(n % 10)

\* serde_json's text of one CollectionStatistics: the f64 average is written
\* with its integer part and first decimal.
statistics_to_json(name, st) ==
    LET tenths == IF st.average.elem_count = 0 THEN 0
                  ELSE (10 * st.average.sum) \div st.average.elem_count
    IN  <<name, "{", "average">> \o Digits(tenths \div 10) \o <<".">>
            \o Digits(tenths % 10)
        \o <<"median">> \o Digits(st.median)
        \o <<"max">> \o Digits(st.max) \o <<"}">>

\* read_db.rs:113-118, serde_json::to_writer_pretty
to_writer_pretty(summary) ==
    <<"{">>
    \o statistics_to_json("execution_results_size",
                          summary.execution_results_size)
    \o statistics_to_json("chunks_statistics", summary.chunks_statistics)
    \o <<"}">>

\* read_db.rs:129-132, OpenOptions::new().create_new(c).write(true).open:
\* neither `create` nor `truncate` is set, so without create_new the file
\* must exist (else ENOENT, 2) and keeps its content; with create_new it
\* must not exist (else EEXIST, 17).
open(file, create_new) ==
    IF create_new
    THEN IF file.exists THEN Err(<<"Output", 17>>)
         ELSE Ok([exists |-> TRUE, content |-> <<>>])
    ELSE IF file.exists THEN Ok([exists |-> TRUE, content |-> file.content])
         ELSE Err(<<"Output", 2>>)

\* Writing text through a handle opened at offset 0.
write(content, text) ==
    text \o SubSeq(content, Len(text) + 1, Len(content))

OutputInit ==
    /\ SummaryStart("open")
    /\ progress_tracker = NoTracker
    /\ \E overwrite \in BOOLEAN,
          before \in {[exists |-> FALSE, content |-> <<>>],
                      [exists |-> TRUE, content |-> <<>>],
                      [exists |-> TRUE,
                       content |-> [n \in 1 .. MaxOldLen |-> "#"]]} :
          out_file = [exists |-> before.exists, content |-> before.content,
                      overwrite |-> overwrite, before |-> before]

\* read_db.rs:126-137 and 33-61: the file is opened, then the scan is
\* entered with log_progress = true and builds its tracker from the entry
\* count when the count is available.
OutputOpen ==
    /\ stats.pc = "open"
    /\ LET file == open(out_file, ~ out_file.overwrite)
       IN  IF file.ok
           THEN /\ out_file' = [out_file EXCEPT
                                  !.exists = file.value.exists,
                                  !.content = file.value.content]
                /\ stats' = [stats EXCEPT !.pc = "scan"]
                /\ \E maybe_entry_count \in {None, Some(Len(stats.rows))} :
                      progress_tracker' =
                          IF /\ maybe_entry_count.some
                             /\ new(maybe_entry_count.v).ok
                          THEN new(maybe_entry_count.v)
                          ELSE NoTracker
           ELSE /\ stats' = [stats EXCEPT !.pc = "failed",
                                          !.err = file.error]
                /\ UNCHANGED <<out_file, progress_tracker>>
    /\ UNCHANGED <<source, destination, slice, stripVars, purgeVars>>

\* read_db.rs:141: the summary is written through the handle
OutputDump ==
    /\ stats.pc = "done"
    /\ out_file.exists
    /\ stats' = [stats EXCEPT !.pc = "dumped"]
    /\ out_file' = [out_file EXCEPT
                      !.content = write(@, to_writer_pretty(stats.summary.v))]
    /\ UNCHANGED <<source, destination, slice, progress_tracker,
                   stripVars, purgeVars>>

OutputNext ==
    \/ OutputOpen
    \/ SummaryScanRow
    \/ SummaryFinish
    \/ OutputDump

SpecOutput == OutputInit /\ [][OutputNext]_vars

\* C22: with an output path, if the path did not exist the call never fails
\* on the output file and, for either value of overwrite, a finished call
\* leaves a newly created file holding the summary; if the path existed and
\* overwrite is false the call fails before scanning and the file is
\* unchanged; if the path existed and overwrite is true a finished call
\* leaves the file holding exactly the summary JSON.
C22_OutputFileContract ==
    /\ ~ out_file.before.exists =>
         /\ stats.pc = "failed" => stats.err[1] # "Output"
         /\ stats.pc = "dumped" =>
              /\ out_file.exists
              /\ out_file.content = to_writer_pretty(stats.summary.v)
    /\ (out_file.before.exists /\ ~ out_file.overwrite) =>
         /\ stats.pc \in {"open", "failed"}
         /\ stats.pc = "failed" =>
              /\ stats.err[1] = "Output"
              /\ stats.idx = 0
         /\ out_file.content = out_file.before.content
    /\ (out_file.before.exists /\ out_file.overwrite
            /\ stats.pc = "dumped") =>
         out_file.content = to_writer_pretty(stats.summary.v)

====
